---- MODULE Spec2Model ----
(***************************************************************************)
(* A model of functions/notify_teams.py: the AWS Lambda entry point that   *)
(* turns one SNS record into a Microsoft Teams adaptive card and posts it  *)
(* to a webhook.                                                           *)
(*                                                                         *)
(* Python values are tagged records (field t names the Python type), so    *)
(* that the code's type-dependent behaviour (`in` on a str, a list or a    *)
(* dict, truthiness, subscripting, str.lower on a non-str) is computed and *)
(* not assumed.  A fallible expression evaluates to Ok(value) or to        *)
(* Raise(type, message), where message is str(exception).                  *)
(***************************************************************************)
EXTENDS Integers, Sequences, FiniteSets, TLC

(***************************************************************************)
(* Python values                                                           *)
(***************************************************************************)
NoneV == [t |-> "None"]
StrV(s) == [t |-> "str", s |-> s]
BoolV(b) == [t |-> "bool", b |-> b]
IntV(n) == [t |-> "int", n |-> n]
\* a float read from a decimal literal: m * 10^(-e), e >= 1 digits after the point
FloatV(m, e) == [t |-> "float", m |-> m, e |-> e]
\* the floats that are no number of finite size, marked by e = 0
PosInf == FloatV(1, 0)
NegInf == FloatV(-1, 0)
NaN == FloatV(2, 0)
\* repr() and format() of such a float
NonFiniteStr(m) == CASE m = 1 -> "inf" [] m = -1 -> "-inf" [] OTHER -> "nan"
ListV(l) == [t |-> "list", l |-> l]
\* a dict: d maps each key to its value, k lists the keys in insertion order
DictV(k, d) == [t |-> "dict", k |-> k, d |-> d]

EmptyDict == DictV(<<>>, <<>>)

\* dv[key] = val
DictPut(dv, key, val) ==
    DictV(IF key \in DOMAIN dv.d THEN dv.k ELSE Append(dv.k, key),
          (key :> val) @@ dv.d)

\* a dict display {k1: v1, k2: v2, ...}, given as a sequence of <<key, value>>
RECURSIVE DictOfFrom(_, _, _)
DictOfFrom(pairs, i, acc) ==
    IF i > Len(pairs) THEN acc
    ELSE DictOfFrom(pairs, i + 1, DictPut(acc, pairs[i][1], pairs[i][2]))

DictOf(pairs) == DictOfFrom(pairs, 1, EmptyDict)
EmptyList == ListV(<<>>)

Ok(v) == [ok |-> TRUE, val |-> v]
Raise(type, msg) == [ok |-> FALSE, exc |-> [type |-> type, msg |-> msg]]

\* a local assigned once and read many times: Op applied to the value of v
Bind(v, Op(_)) == CHOOSE r \in {Op(b) : b \in {v}} : TRUE

\* a statement that may raise, followed by the rest of the block
Then(r, Rest(_)) == Bind(r, LAMBDA x : IF x.ok THEN Rest(x.val) ELSE x)

\* type(v).__name__
ClassName(v) ==
    CASE v.t = "None" -> "NoneType"
      [] v.t = "object" -> v.cls
      [] OTHER -> v.t

\* bool(v): the truth value `if v:` and `v or d` test
Truthy(v) ==
    CASE v.t = "None" -> FALSE
      [] v.t = "str" -> v.s # ""
      [] v.t = "bool" -> v.b
      [] v.t = "int" -> v.n # 0
      [] v.t = "float" -> v.m # 0
      [] v.t = "list" -> v.l # <<>>
      [] v.t = "dict" -> DOMAIN v.d # {}
      [] OTHER -> TRUE

\* the character of s at 1-based position i, "" outside s (Python's s[i:i+1])
Ch(s, i) == IF i >= 1 /\ i <= Len(s) THEN SubSeq(s, i, i) ELSE ""

\* s[i-1:j] of Python for 1-based i..j: the part of it that lies inside s
Slice(s, i, j) ==
    LET lo == IF i < 1 THEN 1 ELSE i
        hi == IF j > Len(s) THEN Len(s) ELSE j
    IN  IF lo > hi THEN "" ELSE SubSeq(s, lo, hi)

\* sub in s, for two str
StrContains(sub, s) ==
    \E i \in 1..(Len(s) - Len(sub) + 1) : SubSeq(s, i, i + Len(sub) - 1) = sub

\* `key in v` for a str key: membership in a dict's keys, in a list's
\* elements, substring of a str; anything else is not iterable
PyIn(key, v) ==
    CASE v.t = "dict" -> Ok(key \in DOMAIN v.d)
      [] v.t = "list" -> Ok(\E i \in 1..Len(v.l) : v.l[i] = StrV(key))
      [] v.t = "str" -> Ok(StrContains(key, v.s))
      [] OTHER -> Raise("TypeError",
                        "argument of type '" \o ClassName(v) \o "' is not iterable")

\* v[key] for a str key
GetItemKey(v, key) ==
    CASE v.t = "dict" ->
            IF key \in DOMAIN v.d THEN Ok(v.d[key])
            ELSE Raise("KeyError", "'" \o key \o "'")
      [] v.t = "list" ->
            Raise("TypeError", "list indices must be integers or slices, not str")
      [] v.t = "str" ->
            Raise("TypeError", "string indices must be integers, not 'str'")
      [] OTHER ->
            Raise("TypeError", "'" \o ClassName(v) \o "' object is not subscriptable")

\* v[-1] of a list, v[0] of anything else
GetItem0_Last(v) ==
    CASE v.t = "list" ->
            IF v.l # <<>> THEN Ok(v.l[Len(v.l)])
            ELSE Raise("IndexError", "list index out of range")
      [] v.t = "str" ->
            IF v.s # "" THEN Ok(StrV(Ch(v.s, 1)))
            ELSE Raise("IndexError", "string index out of range")
      [] v.t = "dict" ->
            Raise("KeyError", "0")
      [] OTHER ->
            Raise("TypeError", "'" \o ClassName(v) \o "' object is not subscriptable")

\* v[0]
GetItem0(v) ==
    CASE v.t = "list" ->
            IF v.l # <<>> THEN Ok(v.l[1])
            ELSE Raise("IndexError", "list index out of range")
      [] v.t = "str" ->
            IF v.s # "" THEN Ok(StrV(Ch(v.s, 1)))
            ELSE Raise("IndexError", "string index out of range")
      [] v.t = "dict" ->
            Raise("KeyError", "0")
      [] OTHER ->
            Raise("TypeError", "'" \o ClassName(v) \o "' object is not subscriptable")

\* v.get(key, default): only a dict has the method
DictGet(v, key, default) ==
    IF v.t = "dict"
    THEN Ok(IF key \in DOMAIN v.d THEN v.d[key] ELSE default)
    ELSE Raise("AttributeError",
               "'" \o ClassName(v) \o "' object has no attribute 'get'")

(***************************************************************************)
(* json.loads (src line 970 and 1069).  The decoder of the standard        *)
(* library, computed on the text: objects, arrays, strings with their      *)
(* escapes, numbers, true/false/null, NaN/Infinity and blanks.  Positions  *)
(* are 1-based here and reported as Python reports them: char = position   *)
(* - 1, line and column counted from the line breaks before the position.  *)
(***************************************************************************)
IsWs(c) == c \in {" ", "\t", "\n", "\r"}

RECURSIVE SkipWs(_, _)
SkipWs(s, i) == IF IsWs(Ch(s, i)) THEN SkipWs(s, i + 1) ELSE i

Digits == {"0", "1", "2", "3", "4", "5", "6", "7", "8", "9"}

DigitVal(c) ==
    CASE c = "0" -> 0 [] c = "1" -> 1 [] c = "2" -> 2 [] c = "3" -> 3
      [] c = "4" -> 4 [] c = "5" -> 5 [] c = "6" -> 6 [] c = "7" -> 7
      [] c = "8" -> 8 [] c = "9" -> 9

\* the end (exclusive) of the run of digits that starts at i
RECURSIVE DigitsEnd(_, _)
DigitsEnd(s, i) == IF Ch(s, i) \in Digits THEN DigitsEnd(s, i + 1) ELSE i

\* the value of the digits s[i..j-1], continuing from acc
RECURSIVE DigitsVal(_, _, _, _)
DigitsVal(s, i, j, acc) ==
    IF i >= j THEN acc ELSE DigitsVal(s, i + 1, j, acc * 10 + DigitVal(Ch(s, i)))

\* JSONDecodeError(msg, doc, pos): the line is one more than the line breaks
\* of doc before pos, the column is counted from the last of them
LineBreaks(doc, pos) == {i \in 1..(pos - 1) : Ch(doc, i) = "\n"}

LastBreak(doc, pos) ==
    IF LineBreaks(doc, pos) = {} THEN 0
    ELSE CHOOSE i \in LineBreaks(doc, pos) : \A k \in LineBreaks(doc, pos) : k <= i

JSONDecodeError(msg, doc, pos) ==
    [ok |-> FALSE, stop |-> FALSE,
     exc |-> [type |-> "JSONDecodeError",
              msg |-> msg \o ": line " \o ToString(Cardinality(LineBreaks(doc, pos)) + 1)
                          \o " column " \o ToString(pos - LastBreak(doc, pos))
                          \o " (char " \o ToString(pos - 1) \o ")"]]

\* the scanner's StopIteration(idx): no value starts at pos
StopAt(pos) == [ok |-> FALSE, stop |-> TRUE, pos |-> pos]
Scanned(v, end) == [ok |-> TRUE, val |-> v, end |-> end]

\* a `while True:` loop whose body is Turn, a step from the loop's variables
\* to the loop's variables or to [done |-> TRUE, result |-> the value the loop
\* ends with].  Turns makes at most n turns, Loop as many as it takes; both by
\* halving, so that a loop of many turns is no deep recursion
RECURSIVE Turns(_, _, _)
Turns(Turn(_), state, n) ==
    IF state.done \/ n <= 0 THEN state
    ELSE IF n = 1 THEN Turn(state)
    ELSE Turns(Turn, Turns(Turn, state, n \div 2), n - n \div 2)

RECURSIVE Loop(_, _, _)
Loop(Turn(_), state, n) ==
    IF state.done THEN state.result
    ELSE Loop(Turn, Turns(Turn, state, n), 2 * n)

\* raw_decode's and the parsers' handling of StopIteration
ExpectValue(s, r) ==
    IF ~r.ok /\ r.stop THEN JSONDecodeError("Expecting value", s, r.pos) ELSE r

\* The characters of the model are the code points 1..255 without U+0060,
\* which no string of this notation can hold: the code points 1..95 and
\* 97..255 in order.  chr(n) is undefined outside them.
CharsTo95 == "\t\n\f\r !\"#$%&'()*+,-./0123456789:;<=>?@ABCDEFGHIJKLMNOPQRSTUVWXYZ[\\]^_"
CharsFrom97 == "abcdefghijklmnopqrstuvwxyz{|}~ ¡¢£¤¥¦§¨©ª«¬­®¯°±²³´µ¶·¸¹º»¼½¾¿ÀÁÂÃÄÅÆÇÈÉÊËÌÍÎÏÐÑÒÓÔÕÖ×ØÙÚÛÜÝÞßàáâãäåæçèéêëìíîïðñòóôõö÷øùúûüýþÿ"

\* chr(n)
CharOf(n) == IF n < 96 THEN SubSeq(CharsTo95, n, n)
             ELSE SubSeq(CharsFrom97, n - 96, n - 96)

Codes == (1..255) \ {96}
Chars == {CharOf(n) : n \in Codes}

\* ord(c) of a character of the model
OrdOf(c) == CHOOSE n \in Codes : CharOf(n) = c

\* the characters below U+0020, which strict JSON forbids inside a string
ControlChars == {CharOf(n) : n \in 1..31}

\* the value of a hexadecimal digit, -1 for any other character
HexVal(c) ==
    CASE c \in Digits -> DigitVal(c)
      [] c \in {"a", "A"} -> 10 [] c \in {"b", "B"} -> 11 [] c \in {"c", "C"} -> 12
      [] c \in {"d", "D"} -> 13 [] c \in {"e", "E"} -> 14 [] c \in {"f", "F"} -> 15
      [] OTHER -> -1

\* the number the four hexadecimal digits s[i..i+3] spell, -1 when one of them
\* is no hexadecimal digit
HexAt(s, i) ==
    IF \E k \in 0..3 : HexVal(Ch(s, i + k)) < 0 THEN -1
    ELSE ((HexVal(Ch(s, i)) * 16 + HexVal(Ch(s, i + 1))) * 16
             + HexVal(Ch(s, i + 2))) * 16 + HexVal(Ch(s, i + 3))

\* the scan for the end of a run of plain text: the first position from i on
\* that holds a quote, a backslash or a control character, or lies past s; a
\* character that is none of the model's stops the scan as well
EndsChunk(c) == c \in {"", "\"", "\\"} \/ c \in ControlChars \/ c \notin Chars

ChunkEnd(s, i) ==
    Bind({j \in i..(Len(s) + 1) : EndsChunk(Ch(s, j))}, LAMBDA ends :
        CHOOSE j \in ends : \A k \in ends : j <= k)

\* The escape whose backslash is at j, inside the string that opens at begin:
\* the text it stands for and the position after it, or the error's message
\* and position.  A \u escape has its four digits at j+2..j+5 and must be
\* followed by at least one more character; a high surrogate followed by a \u
\* escape of a low surrogate makes one character with it
Unescaped(text, next) == [ok |-> TRUE, text |-> text, next |-> next]
BadString(msg, pos) == [ok |-> FALSE, msg |-> msg, pos |-> pos]

UnicodeEscapeAt(s, j) ==
    Bind(HexAt(s, j + 2), LAMBDA uni :
    Bind(HexAt(s, j + 8), LAMBDA uni2 :
        IF j + 5 >= Len(s) \/ uni < 0
        THEN BadString("Invalid \\uXXXX escape", j + 1)
        ELSE IF /\ uni \in 55296..56319
                /\ j + 11 < Len(s)
                /\ Ch(s, j + 6) = "\\" /\ Ch(s, j + 7) = "u"
        THEN IF uni2 < 0
             THEN BadString("Invalid \\uXXXX escape", j + 7)
             ELSE IF uni2 \in 56320..57343
             THEN Unescaped(CharOf(65536 + (uni - 55296) * 1024 + (uni2 - 56320)), j + 12)
             ELSE Unescaped(CharOf(uni), j + 6)
        ELSE Unescaped(CharOf(uni), j + 6)))

EscapeAt(s, j, begin) ==
    Bind(Ch(s, j + 1), LAMBDA esc :
        CASE esc = "" -> BadString("Unterminated string starting at", begin)
          [] esc \in {"\"", "\\", "/"} -> Unescaped(esc, j + 2)
          [] esc = "b" -> Unescaped(CharOf(8), j + 2)
          [] esc = "f" -> Unescaped("\f", j + 2)
          [] esc = "n" -> Unescaped("\n", j + 2)
          [] esc = "r" -> Unescaped("\r", j + 2)
          [] esc = "t" -> Unescaped("\t", j + 2)
          [] esc = "u" -> UnicodeEscapeAt(s, j)
          [] OTHER -> BadString("Invalid \\escape", j))

\* scanstring's loop: i is the position after the opening quote or after an
\* escape, begin the position of the quote; one turn per chunk and
\* terminator.  j is the position of the terminator.  No arm takes a
\* character that is none of the model's: the scan of such a text is undefined
RECURSIVE scanstring_chunks(_, _, _, _)
scanstring_chunks(s, i, acc, begin) ==
    Bind(ChunkEnd(s, i), LAMBDA j :
    Bind(acc \o Slice(s, i, j - 1), LAMBDA content :
    Bind(Ch(s, j), LAMBDA c :
        CASE c = "" -> BadString("Unterminated string starting at", begin)
          [] c = "\"" -> Scanned(StrV(content), j + 1)
          [] c \in ControlChars -> BadString("Invalid control character at", j)
          [] c = "\\" ->
                Bind(EscapeAt(s, j, begin), LAMBDA e :
                    IF e.ok THEN scanstring_chunks(s, e.next, content \o e.text, begin)
                    ELSE e))))

\* scanstring (the C scanner the decoder uses)
scanstring(s, i, acc, begin) ==
    Bind(scanstring_chunks(s, i, acc, begin), LAMBDA r :
        IF r.ok THEN r ELSE JSONDecodeError(r.msg, s, r.pos))

RECURSIVE Pow10(_)
Pow10(n) == IF n <= 0 THEN 1 ELSE 10 * Pow10(n - 1)

\* -0.0, the one float that the decimal m * 10^(-e) cannot tell from another
NegZero == FloatV(0, -1)

Signed(neg, a) == IF neg THEN -a ELSE a

\* a * 10^ex without the trailing zeros of a: <<a0, ex0>>
RECURSIVE StripZeros(_, _)
StripZeros(a, ex) ==
    IF a # 0 /\ a % 10 = 0 THEN StripZeros(a \div 10, ex + 1) ELSE <<a, ex>>

\* The product of n and a constant held four digits at a time, C[1] its
\* units and C[j+1] its digits at 10^(-4j): the digits of n * C that stand at
\* 10^(-4t), before carrying, and with the carry from below
LimbSum(n, C, t) ==
    (IF t + 1 \in 1..Len(C) THEN (n % 10000) * C[t + 1] ELSE 0)
    + (IF t + 2 \in 1..Len(C) THEN ((n \div 10000) % 10000) * C[t + 2] ELSE 0)
    + (IF t + 3 \in 1..Len(C) THEN (n \div 100000000) * C[t + 3] ELSE 0)

RECURSIVE LimbTotal(_, _, _)
LimbTotal(n, C, t) ==
    IF t >= Len(C) THEN 0
    ELSE LimbSum(n, C, t) + LimbTotal(n, C, t + 1) \div 10000

\* floor(n * C), and whether the fraction of n * C is a half or more
FloorMul(n, C) ==
    LimbTotal(n, C, 0) + 10000 * LimbSum(n, C, -1) + 100000000 * LimbSum(n, C, -2)

HalfOrMore(n, C) == LimbTotal(n, C, 1) % 10000 >= 5000

\* The floats below 2.2250738585072014e-308 are the multiples of 2^-1074 =
\* 4.94065645841246544...e-324: that unit in units of 10^-324, and 10^-324 in
\* units of it
SubnormalUnit == <<4, 9406, 5645, 8412, 4654, 4176, 5687, 9286>>
PerSubnormalUnit == <<0, 2024, 225, 3307, 3106, 1835, 2495, 3467>>

\* float() of the decimal a * 10^(-324-t), 0 <= t <= 9: the nearest multiple
\* of 2^-1074, as the number of units
SubnormalOf(a, t) ==
    Bind(FloorMul(a, PerSubnormalUnit), LAMBDA whole :
        IF t = 0 THEN whole + (IF HalfOrMore(a, PerSubnormalUnit) THEN 1 ELSE 0)
        ELSE (whole \div Pow10(t))
                + (IF 2 * (whole % Pow10(t)) >= Pow10(t) THEN 1 ELSE 0))

\* repr() of k * 2^-1074 in units of 10^-324: the decimal of fewest digits
\* that float() reads back as k units, the nearest one when ten of them do
ShortestOf(k) ==
    Bind(FloorMul(k, SubnormalUnit), LAMBDA whole :
    Bind({c \in UNION {{(whole \div Pow10(t)) * Pow10(t),
                         (whole \div Pow10(t)) * Pow10(t) + Pow10(t)} : t \in 1..9} :
             c > 0 /\ SubnormalOf(c, 0) = k}, LAMBDA short :
        IF short = {}
        THEN whole + (IF HalfOrMore(k, SubnormalUnit) THEN 1 ELSE 0)
        ELSE CHOOSE c \in short :
                \A o \in short : StripZeros(c, 0)[2] >= StripZeros(o, 0)[2]))

\* the largest float is 1.7976931348623157e308: the decimal exponent of its
\* first digit
MaxExp10 == 308

\* float(integer + frac + exp) of the literal (-)a * 10^ex.  A float is held
\* as the decimal that repr() prints for it: the literal itself without its
\* trailing zeros while its last digit stands at 10^-323 or above (its digits
\* are fewer than the 15 a float keeps), the nearest multiple of 2^-1074 below
\* that, a zero with the literal's sign below half of 2^-1074, an infinity
\* from 1.797693134862315807e308 upwards
FloatOf(neg, a, ex) ==
    IF a = 0 THEN (IF neg THEN NegZero ELSE FloatV(0, 1))
    ELSE
    Bind(StripZeros(a, ex), LAMBDA n :
    Bind(Len(ToString(n[1])), LAMBDA nd :
        IF \/ nd - 1 + n[2] > MaxExp10
           \/ /\ nd - 1 + n[2] = MaxExp10
              /\ \/ SubSeq(ToString(n[1]), 1, 1) # "1"
                 \/ n[1] * Pow10(10 - nd) > 1797693134
        THEN (IF neg THEN NegInf ELSE PosInf)
        ELSE IF n[2] >= 0 THEN FloatV(Signed(neg, n[1] * Pow10(n[2] + 1)), 1)
        ELSE IF -n[2] <= 323 THEN FloatV(Signed(neg, n[1]), -n[2])
        ELSE IF -n[2] > 333 THEN (IF neg THEN NegZero ELSE FloatV(0, 1))
        ELSE Bind(SubnormalOf(n[1], -n[2] - 324), LAMBDA k :
                IF k = 0 THEN (IF neg THEN NegZero ELSE FloatV(0, 1))
                ELSE Bind(StripZeros(ShortestOf(k), -324), LAMBDA c :
                        FloatV(Signed(neg, c[1]), -c[2])))))

\* NUMBER_RE at idx: (-?(?:0|[1-9]\d*))(\.\d+)?([eE][-+]?\d+)?
match_number(s, idx) ==
    LET neg == Ch(s, idx) = "-"
        i0 == IF neg THEN idx + 1 ELSE idx
        i1 == IF Ch(s, i0) = "0" THEN i0 + 1 ELSE DigitsEnd(s, i0)
        whole == DigitsVal(s, i0, i1, 0)
        f1 == DigitsEnd(s, i1 + 1)
        hasFrac == Ch(s, i1) = "." /\ f1 > i1 + 1
        fracEnd == IF hasFrac THEN f1 ELSE i1
        mantissa == IF hasFrac THEN DigitsVal(s, i1 + 1, f1, whole) ELSE whole
        e == IF hasFrac THEN f1 - i1 - 1 ELSE 0
        x0 == IF Ch(s, fracEnd + 1) \in {"+", "-"} THEN fracEnd + 2 ELSE fracEnd + 1
        x1 == DigitsEnd(s, x0)
        hasExp == Ch(s, fracEnd) \in {"e", "E"} /\ x1 > x0
        x == IF ~hasExp THEN 0
             ELSE IF Ch(s, fracEnd + 1) = "-" THEN -DigitsVal(s, x0, x1, 0)
             ELSE DigitsVal(s, x0, x1, 0)
    IN  IF i1 = i0 THEN StopAt(idx)
        ELSE IF hasFrac \/ hasExp
        THEN Scanned(FloatOf(neg, mantissa, x - e),
                     IF hasExp THEN x1 ELSE fracEnd)
        ELSE Scanned(IntV(Signed(neg, whole)), i1)

\* the constants the scanner reads where no number starts
match_constant(s, idx) ==
    CASE Slice(s, idx, idx + 2) = "NaN" -> Scanned(NaN, idx + 3)
      [] Slice(s, idx, idx + 7) = "Infinity" -> Scanned(PosInf, idx + 8)
      [] Slice(s, idx, idx + 8) = "-Infinity" -> Scanned(NegInf, idx + 9)
      [] OTHER -> StopAt(idx)

RECURSIVE scan_once(_, _)
RECURSIVE JSONObject_pairs(_, _, _)
RECURSIVE JSONArray_values(_, _, _)

\* JSONObject after the opening brace: end is the position after it
JSONObject(s, end) ==
    LET e1 == SkipWs(s, end)
    IN  IF Ch(s, e1) = "\"" THEN JSONObject_pairs(s, e1, EmptyDict)
        ELSE IF Ch(s, e1) = "}" THEN Scanned(EmptyDict, e1 + 1)
        ELSE JSONDecodeError("Expecting property name enclosed in double quotes", s, e1)

\* one turn of JSONObject's loop, q the position of the key's opening quote:
\* the result of the object when the turn ends it (done), or the pairs so far
\* and the position of the next key's quote
JSONObject_pair(s, q, acc) ==
    LET k == scanstring(s, q + 1, "", q)
        c1 == SkipWs(s, k.end)
        v == ExpectValue(s, scan_once(s, SkipWs(s, c1 + 1)))
        d1 == SkipWs(s, v.end)
        pairs == DictPut(acc, k.val.s, v.val)
        n1 == SkipWs(s, d1 + 1)
        Done(r) == [done |-> TRUE, result |-> r]
    IN  IF ~k.ok THEN Done(k)
        ELSE IF Ch(s, c1) # ":" THEN Done(JSONDecodeError("Expecting ':' delimiter", s, c1))
        ELSE IF ~v.ok THEN Done(v)
        ELSE IF Ch(s, d1) = "}" THEN Done(Scanned(pairs, d1 + 1))
        ELSE IF Ch(s, d1) # "," THEN Done(JSONDecodeError("Expecting ',' delimiter", s, d1))
        ELSE IF Ch(s, n1) # "\""
        THEN Done(JSONDecodeError("Expecting property name enclosed in double quotes", s, n1))
        ELSE [done |-> FALSE, pairs |-> pairs, next |-> n1]

\* JSONObject's loop from the key whose opening quote is at q
JSONObject_pairs(s, q, acc) ==
    Loop(LAMBDA turn : JSONObject_pair(s, turn.next, turn.pairs),
         [done |-> FALSE, pairs |-> acc, next |-> q], 1)

\* JSONArray after the opening bracket
JSONArray(s, end) ==
    LET e1 == SkipWs(s, end)
    IN  IF Ch(s, e1) = "]" THEN Scanned(EmptyList, e1 + 1)
        ELSE JSONArray_values(s, e1, <<>>)

\* one turn of JSONArray's loop, i the position of the value: the result of
\* the array when the turn ends it (done), or the values so far and the
\* position of the next value
JSONArray_value(s, i, acc) ==
    LET v == ExpectValue(s, scan_once(s, i))
        d1 == SkipWs(s, v.end)
        Done(r) == [done |-> TRUE, result |-> r]
    IN  IF ~v.ok THEN Done(v)
        ELSE IF Ch(s, d1) = "]" THEN Done(Scanned(ListV(Append(acc, v.val)), d1 + 1))
        ELSE IF Ch(s, d1) # "," THEN Done(JSONDecodeError("Expecting ',' delimiter", s, d1))
        ELSE [done |-> FALSE, values |-> Append(acc, v.val), next |-> SkipWs(s, d1 + 1)]

\* JSONArray's loop from the value at i
JSONArray_values(s, i, acc) ==
    Loop(LAMBDA turn : JSONArray_value(s, turn.next, turn.values),
         [done |-> FALSE, values |-> acc, next |-> i], 1)

scan_once(s, idx) ==
    LET c == Ch(s, idx)
    IN  CASE c = "" -> StopAt(idx)
          [] c = "\"" -> scanstring(s, idx + 1, "", idx)
          [] c = "{" -> JSONObject(s, idx + 1)
          [] c = "[" -> JSONArray(s, idx + 1)
          [] c = "n" /\ Slice(s, idx, idx + 3) = "null" -> Scanned(NoneV, idx + 4)
          [] c = "t" /\ Slice(s, idx, idx + 3) = "true" -> Scanned(BoolV(TRUE), idx + 4)
          [] c = "f" /\ Slice(s, idx, idx + 4) = "false" -> Scanned(BoolV(FALSE), idx + 5)
          [] OTHER -> Bind(match_number(s, idx), LAMBDA m :
                          IF m.ok THEN m ELSE match_constant(s, idx))

\* JSONDecoder.decode
decode(s) ==
    Bind(ExpectValue(s, scan_once(s, SkipWs(s, 1))), LAMBDA r :
        IF ~r.ok THEN r
        ELSE Bind(SkipWs(s, r.end), LAMBDA end :
                IF end # Len(s) + 1 THEN JSONDecodeError("Extra data", s, end)
                ELSE Ok(r.val)))

\* json.loads(v): a non-str argument is a TypeError, a bad text a
\* JSONDecodeError (a subclass of ValueError)
json_loads(v) ==
    IF v.t # "str"
    THEN Raise("TypeError", "the JSON object must be str, bytes or bytearray, not "
                             \o ClassName(v))
    ELSE Bind(decode(v.s), LAMBDA r :
            IF r.ok THEN Ok(r.val) ELSE [ok |-> FALSE, exc |-> r.exc])

IsValueError(exc) == exc.type \in {"ValueError", "JSONDecodeError"}

(***************************************************************************)
(* str(), repr(), format specs, slices and str methods, as the renderers   *)
(* apply them to whatever value the payload holds.                         *)
(***************************************************************************)
RECURSIVE Zeros(_)
Zeros(n) == IF n <= 0 THEN "" ELSE "0" \o Zeros(n - 1)

Abs(n) == IF n < 0 THEN -n ELSE n

\* the digits of n >= 0, at least width of them
PadDigits(n, width) ==
    LET ds == ToString(n) IN Zeros(width - Len(ds)) \o ds

\* repr(float) of the decimal m * 10^(-e): the digits with the point in
\* place, or d.ddde-XX when the first digit stands below 10^-4
FloatRepr(m, e) ==
    IF e < 0 THEN "-0.0"
    ELSE
    Bind(ToString(Abs(m)), LAMBDA ds :
    Bind(Len(ds), LAMBDA n :
        (IF m < 0 THEN "-" ELSE "") \o
        (IF m # 0 /\ n - e <= -4
         THEN SubSeq(ds, 1, 1) \o (IF n > 1 THEN "." \o SubSeq(ds, 2, n) ELSE "")
                 \o "e-" \o PadDigits(e - n + 1, 2)
         ELSE IF e >= n THEN "0." \o Zeros(e - n) \o ds
         ELSE SubSeq(ds, 1, n - e) \o "." \o SubSeq(ds, n - e + 1, n))))

RECURSIVE Pow5(_)
Pow5(n) == IF n <= 0 THEN 1 ELSE 5 * Pow5(n - 1)

\* the number of binary digits of n >= 0
BitLen(n) ==
    CHOOSE b \in 0..31 :
        IF b = 0 THEN n = 0
        ELSE 2^(b - 1) <= n /\ (b = 31 \/ n < 2^b)

\* The float nearest to the decimal a * 10^(-e), a > 0, lies above it: the
\* binary digits of a / 5^e are taken one at a time (r the remainder, got the
\* digits taken from the first 1 on) and the float keeps 53 of them, so it
\* lies above when the rest is more than half of the last one kept
BinaryAbove(a, e) ==
    Bind(Pow5(e), LAMBDA D :
        Loop(LAMBDA st :
                IF st.got >= 53 \/ st.r = 0
                THEN [done |-> TRUE, result |-> st.r > D - st.r]
                ELSE [done |-> FALSE,
                      r |-> IF st.r >= D - st.r THEN st.r - (D - st.r) ELSE st.r + st.r,
                      got |-> IF st.got = 0 /\ st.r < D - st.r THEN 0 ELSE st.got + 1],
             [done |-> FALSE, r |-> a % D, got |-> BitLen(a \div D)], 1))

\* format(x, ".<d>f") of the decimal m * 10^(-e): the digits are padded when
\* e <= d and rounded otherwise.  What is rounded is the float, not the
\* decimal: a decimal that stands exactly halfway goes to the even digit when
\* it has an exact binary value (0.125, 2.5) and otherwise to the side on
\* which its float lies (2.675 is held as 2.67499999999999982...)
FixedStr(m, e, d) ==
    IF e < 0 THEN "-0." \o Zeros(d)
    ELSE
    Bind(Abs(m), LAMBDA a :
    Bind(ToString(a), LAMBDA ds :
    Bind(Len(ds), LAMBDA n :
        (IF m < 0 THEN "-" ELSE "") \o
        (IF e <= d
         THEN (IF e >= n THEN "0." \o Zeros(e - n) \o ds
               ELSE SubSeq(ds, 1, n - e) \o "." \o SubSeq(ds, n - e + 1, n))
                 \o Zeros(d - e)
         ELSE Bind(IF e - d >= 10 THEN 0
                   ELSE Bind(Pow10(e - d), LAMBDA cut :
                        Bind(a \div cut, LAMBDA q :
                        Bind(a % cut, LAMBDA r :
                            IF \/ 2 * r > cut
                               \/ /\ 2 * r = cut
                                  /\ IF a % Pow5(e) = 0 THEN q % 2 = 1
                                     ELSE BinaryAbove(a, e)
                            THEN q + 1 ELSE q))),
                   LAMBDA scaled :
                        ToString(scaled \div Pow10(d)) \o "."
                            \o PadDigits(scaled % Pow10(d), d))))))

\* f"{v:.<d>f}"
FormatFixed(v, d) ==
    CASE v.t = "int" -> Ok(ToString(v.n) \o "." \o Zeros(d))
      [] v.t = "bool" -> Ok((IF v.b THEN "1" ELSE "0") \o "." \o Zeros(d))
      [] v.t = "float" ->
            Ok(IF v.e = 0 THEN NonFiniteStr(v.m) ELSE FixedStr(v.m, v.e, d))
      [] v.t = "str" ->
            Raise("ValueError", "Unknown format code 'f' for object of type 'str'")
      [] OTHER ->
            Raise("TypeError", "unsupported format string passed to "
                                \o ClassName(v) \o ".__format__")

\* the characters of the model that str.isprintable() rejects: the control
\* characters, U+007F..U+00A0 and the soft hyphen U+00AD
NonPrintable == {CharOf(n) : n \in (1..31) \cup (127..160) \cup {173}}

\* two lowercase hexadecimal digits of n < 256
Hex2(n) ==
    Ch("0123456789abcdef", (n \div 16) + 1) \o Ch("0123456789abcdef", (n % 16) + 1)

\* one character of repr(s): backslash and the quote in use are escaped, tab
\* and the line breaks are written \t, \n, \r, any other character that is
\* not printable \xNN
ReprChar(c, q) ==
    CASE c = "\\" -> "\\\\"
      [] c = q -> "\\" \o q
      [] c = "\n" -> "\\n"
      [] c = "\t" -> "\\t"
      [] c = "\r" -> "\\r"
      [] c \in NonPrintable -> "\\x" \o Hex2(OrdOf(c))
      [] OTHER -> c

\* the body of repr(s) for the characters lo..hi of s
RECURSIVE ReprChars(_, _, _, _)
ReprChars(s, lo, hi, q) ==
    IF lo > hi THEN ""
    ELSE IF lo = hi THEN ReprChar(Ch(s, lo), q)
    ELSE ReprChars(s, lo, (lo + hi) \div 2, q)
            \o ReprChars(s, (lo + hi) \div 2 + 1, hi, q)

StrRepr(s) ==
    LET q == IF StrContains("'", s) /\ ~StrContains("\"", s) THEN "\"" ELSE "'"
    IN  q \o ReprChars(s, 1, Len(s), q) \o q

RECURSIVE Repr(_)
RECURSIVE ReprItems(_, _)
RECURSIVE ReprPairs(_, _)

\* repr(v)
Repr(v) ==
    CASE v.t = "None" -> "None"
      [] v.t = "str" -> StrRepr(v.s)
      [] v.t = "bool" -> IF v.b THEN "True" ELSE "False"
      [] v.t = "int" -> ToString(v.n)
      [] v.t = "float" -> IF v.e = 0 THEN NonFiniteStr(v.m) ELSE FloatRepr(v.m, v.e)
      [] v.t = "list" -> "[" \o ReprItems(v.l, 1) \o "]"
      [] v.t = "dict" -> "{" \o ReprPairs(v, 1) \o "}"
      [] OTHER -> "<" \o v.cls \o " object>"

ReprItems(l, i) ==
    IF i > Len(l) THEN ""
    ELSE Repr(l[i]) \o (IF i < Len(l) THEN ", " ELSE "") \o ReprItems(l, i + 1)

ReprPairs(dv, i) ==
    IF i > Len(dv.k) THEN ""
    ELSE StrRepr(dv.k[i]) \o ": " \o Repr(dv.d[dv.k[i]])
            \o (IF i < Len(dv.k) THEN ", " ELSE "") \o ReprPairs(dv, i + 1)

\* str(v), which is also what f"{v}" inserts
PyStr(v) == IF v.t = "str" THEN v.s ELSE Repr(v)

\* one character of a string written by json.dumps with ensure_ascii: the
\* quote and the backslash are escaped, \n \r \t \b \f have their short
\* forms, and every other character outside ' '..'~' is written \u00NN
JsonChar(c) ==
    CASE c = "\"" -> "\\\""
      [] c = "\\" -> "\\\\"
      [] c = "\n" -> "\\n"
      [] c = "\r" -> "\\r"
      [] c = "\t" -> "\\t"
      [] c = CharOf(8) -> "\\b"
      [] c = CharOf(12) -> "\\f"
      [] OrdOf(c) < 32 \/ OrdOf(c) > 126 -> "\\u00" \o Hex2(OrdOf(c))
      [] OTHER -> c

RECURSIVE JsonChars(_, _, _)
JsonChars(s, lo, hi) ==
    IF lo > hi THEN ""
    ELSE IF lo = hi THEN JsonChar(Ch(s, lo))
    ELSE JsonChars(s, lo, (lo + hi) \div 2) \o JsonChars(s, (lo + hi) \div 2 + 1, hi)

JsonStr(s) == "\"" \o JsonChars(s, 1, Len(s)) \o "\""

RECURSIVE json_dumps(_)
RECURSIVE JsonItems(_, _)
RECURSIVE JsonPairs(_, _)

\* json.dumps(v) of a value that json.loads has built (every key a string,
\* no object of another class): separators ', ' and ': ', floats written by
\* float.__repr__, the non-finite ones NaN, Infinity and -Infinity
json_dumps(v) ==
    CASE v.t = "None" -> "null"
      [] v.t = "str" -> JsonStr(v.s)
      [] v.t = "bool" -> IF v.b THEN "true" ELSE "false"
      [] v.t = "int" -> ToString(v.n)
      [] v.t = "float" ->
            IF v.e # 0 THEN FloatRepr(v.m, v.e)
            ELSE CASE v.m = 1 -> "Infinity" [] v.m = -1 -> "-Infinity" [] OTHER -> "NaN"
      [] v.t = "list" -> "[" \o JsonItems(v.l, 1) \o "]"
      [] OTHER -> "{" \o JsonPairs(v, 1) \o "}"

JsonItems(l, i) ==
    IF i > Len(l) THEN ""
    ELSE json_dumps(l[i]) \o (IF i < Len(l) THEN ", " ELSE "") \o JsonItems(l, i + 1)

JsonPairs(dv, i) ==
    IF i > Len(dv.k) THEN ""
    ELSE JsonStr(dv.k[i]) \o ": " \o json_dumps(dv.d[dv.k[i]])
            \o (IF i < Len(dv.k) THEN ", " ELSE "") \o JsonPairs(dv, i + 1)

\* v[:n] with the slice left out: v itself
SlicePrefix_Whole(v, n) == Ok(v)

\* v[:n]
SlicePrefix(v, n) ==
    CASE v.t = "str" -> Ok(StrV(Slice(v.s, 1, n)))
      [] v.t = "list" ->
            Ok(ListV(SubSeq(v.l, 1, IF Len(v.l) < n THEN Len(v.l) ELSE n)))
      [] v.t = "dict" -> Raise("TypeError", "unhashable type: 'slice'")
      [] OTHER ->
            Raise("TypeError", "'" \o ClassName(v) \o "' object is not subscriptable")

\* the capital letters U+00C0..U+00DE (the sign U+00D7 is none), whose small
\* letters stand 32 places on
UpperLatin1 == {CharOf(n) : n \in (192..222) \ {215}}

LowerCh(c) ==
    CASE c = "A" -> "a" [] c = "B" -> "b" [] c = "C" -> "c" [] c = "D" -> "d"
      [] c = "E" -> "e" [] c = "F" -> "f" [] c = "G" -> "g" [] c = "H" -> "h"
      [] c = "I" -> "i" [] c = "J" -> "j" [] c = "K" -> "k" [] c = "L" -> "l"
      [] c = "M" -> "m" [] c = "N" -> "n" [] c = "O" -> "o" [] c = "P" -> "p"
      [] c = "Q" -> "q" [] c = "R" -> "r" [] c = "S" -> "s" [] c = "T" -> "t"
      [] c = "U" -> "u" [] c = "V" -> "v" [] c = "W" -> "w" [] c = "X" -> "x"
      [] c = "Y" -> "y" [] c = "Z" -> "z"
      [] c \in UpperLatin1 -> CharOf(OrdOf(c) + 32)
      [] OTHER -> c

\* the characters lo..hi of s in lower case
RECURSIVE LowerFrom(_, _, _)
LowerFrom(s, lo, hi) ==
    IF lo > hi THEN ""
    ELSE IF lo = hi THEN LowerCh(Ch(s, lo))
    ELSE LowerFrom(s, lo, (lo + hi) \div 2) \o LowerFrom(s, (lo + hi) \div 2 + 1, hi)

\* v.lower(): only a str has the method
Lower(v) ==
    IF v.t = "str" THEN Ok(StrV(LowerFrom(v.s, 1, Len(v.s))))
    ELSE Raise("AttributeError",
               "'" \o ClassName(v) \o "' object has no attribute 'lower'")

\* get_action_color without the call of lower(): the words are matched as
\* they are written
get_action_color_CaseSensitive(action) ==
    IF action.t # "str" THEN Lower(action)
    ELSE Ok(StrV(CASE action.s \in {"deleted", "d", "delete", "removed"} -> "attention"
                   [] action.s \in {"created", "create", "added"} -> "good"
                   [] action.s \in {"updated", "update", "modified"} -> "default"
                   [] action.s \in {"deployed", "deploy"} -> "good"
                   [] action.s \in {"restored", "restore"} -> "good"
                   [] OTHER -> "default"))

\* get_action_color (src lines 30-44)
get_action_color(action) ==
    Then(Lower(action), LAMBDA action_lower :
        Ok(StrV(CASE action_lower.s \in {"deleted", "d", "delete", "removed"} -> "attention"
                  [] action_lower.s \in {"created", "create", "added"} -> "good"
                  [] action_lower.s \in {"updated", "update", "modified"} -> "default"
                  [] action_lower.s \in {"deployed", "deploy"} -> "good"
                  [] action_lower.s \in {"restored", "restore"} -> "good"
                  [] OTHER -> "default")))

\* len(v)
PyLen(v) ==
    CASE v.t = "str" -> Ok(Len(v.s))
      [] v.t = "list" -> Ok(Len(v.l))
      [] v.t = "dict" -> Ok(Len(v.k))
      [] OTHER ->
            Raise("TypeError", "object of type '" \o ClassName(v) \o "' has no len()")

(***************************************************************************)
(* The card document model (src lines 47-289).  An instance is a record    *)
(* with t = "object", its class in cls and one field per attribute.  A     *)
(* constructor takes its keyword arguments as a record kw and applies the  *)
(* defaults and the `x or []` of __init__.  to_dict returns a dict value.  *)
(***************************************************************************)
Arg(kw, name, default) == IF name \in DOMAIN kw THEN kw[name] ELSE default

\* x or d
OrElse(x, d) == IF Truthy(x) THEN x ELSE d

\* result[k] = v for each <<condition, k, v>> whose condition holds, in order
RECURSIVE PutEach(_, _, _)
PutEach(dv, puts, i) ==
    IF i > Len(puts) THEN dv
    ELSE PutEach(IF puts[i][1] THEN DictPut(dv, puts[i][2], puts[i][3]) ELSE dv,
                 puts, i + 1)

FactSet(title, value) ==
    [t |-> "object", cls |-> "FactSet", title |-> title, value |-> value]

Fact(title, value) ==
    [t |-> "object", cls |-> "Fact", title |-> title, value |-> value]

FactSetBlock(kw) ==
    [t |-> "object", cls |-> "FactSetBlock",
     facts |-> kw.facts,
     spacing |-> Arg(kw, "spacing", NoneV),
     separator |-> Arg(kw, "separator", NoneV)]

Action(kw) ==
    [t |-> "object", cls |-> "Action",
     type |-> kw.type_,
     title |-> kw.title,
     url |-> Arg(kw, "url", NoneV),
     style |-> Arg(kw, "style", NoneV)]

TableColumn(kw) ==
    [t |-> "object", cls |-> "TableColumn", width |-> Arg(kw, "width", NoneV)]

TableCell(items) == [t |-> "object", cls |-> "TableCell", items |-> items]

TableRow(cells) == [t |-> "object", cls |-> "TableRow", cells |-> cells]

Table(kw) ==
    [t |-> "object", cls |-> "Table",
     columns |-> kw.columns,
     rows |-> kw.rows,
     first_row_as_header |-> Arg(kw, "first_row_as_header", BoolV(TRUE)),
     show_grid_lines |-> Arg(kw, "show_grid_lines", BoolV(FALSE)),
     spacing |-> Arg(kw, "spacing", NoneV)]

ColumnSet(kw) ==
    [t |-> "object", cls |-> "ColumnSet",
     type |-> Arg(kw, "type_", StrV("Column")),
     width |-> Arg(kw, "width", NoneV),
     items |-> OrElse(Arg(kw, "items", NoneV), EmptyList)]

BodyBlock(kw) ==
    [t |-> "object", cls |-> "BodyBlock",
     type |-> Arg(kw, "type_", NoneV),
     text |-> Arg(kw, "text", NoneV),
     weight |-> Arg(kw, "weight", NoneV),
     size |-> Arg(kw, "size", NoneV),
     color |-> Arg(kw, "color", NoneV),
     facts |-> OrElse(Arg(kw, "facts", NoneV), EmptyList),
     columns |-> OrElse(Arg(kw, "columns", NoneV), EmptyList),
     items |-> OrElse(Arg(kw, "items", NoneV), EmptyList),
     style |-> Arg(kw, "style", NoneV),
     spacing |-> Arg(kw, "spacing", NoneV),
     separator |-> Arg(kw, "separator", NoneV),
     horizontal_alignment |-> Arg(kw, "horizontal_alignment", NoneV),
     vertical_content_alignment |-> Arg(kw, "vertical_content_alignment", NoneV),
     wrap |-> Arg(kw, "wrap", NoneV),
     fact_set_block |-> Arg(kw, "fact_set_block", NoneV),
     table |-> Arg(kw, "table", NoneV)]

Content(kw) ==
    [t |-> "object", cls |-> "Content",
     schema |-> Arg(kw, "schema",
                    StrV("http://adaptivecards.io/schemas/adaptive-card.json")),
     type |-> Arg(kw, "type_", StrV("AdaptiveCard")),
     version |-> Arg(kw, "version", StrV("1.2")),
     body |-> OrElse(Arg(kw, "body", NoneV), EmptyList),
     actions |-> OrElse(Arg(kw, "actions", NoneV), EmptyList)]

Attachment(kw) ==
    [t |-> "object", cls |-> "Attachment",
     content_type |-> Arg(kw, "content_type",
                          StrV("application/vnd.microsoft.card.adaptive")),
     content_url |-> Arg(kw, "content_url", NoneV),
     content |-> Arg(kw, "content", NoneV)]

TeamsMessage(kw) ==
    [t |-> "object", cls |-> "TeamsMessage",
     type |-> Arg(kw, "type_", StrV("message")),
     attachments |-> OrElse(Arg(kw, "attachments", NoneV), EmptyList)]

RECURSIVE to_dict(_)

\* [x.to_dict() for x in lv], as a sequence
to_dict_each(lv) == [i \in 1..Len(lv.l) |-> to_dict(lv.l[i])] \o <<>>

to_dict_list(lv) == ListV(to_dict_each(lv))

FactSet_to_dict(self) ==
    DictOf(<< <<"title", self.title>>, <<"value", self.value>> >>)

Fact_to_dict(self) ==
    DictOf(<< <<"title", self.title>>, <<"value", self.value>> >>)

FactSetBlock_to_dict(self) ==
    PutEach(DictOf(<< <<"type", StrV("FactSet")>>,
                      <<"facts", to_dict_list(self.facts)>> >>),
            << <<Truthy(self.spacing), "spacing", self.spacing>>,
               <<self.separator # NoneV, "separator", self.separator>> >>, 1)

Action_to_dict(self) ==
    PutEach(DictOf(<< <<"type", self.type>>, <<"title", self.title>> >>),
            << <<Truthy(self.url), "url", self.url>>,
               <<Truthy(self.style), "style", self.style>> >>, 1)

TableColumn_to_dict(self) ==
    PutEach(DictOf(<< <<"type", StrV("TableColumnDefinition")>> >>),
            << <<Truthy(self.width), "width", self.width>> >>, 1)

TableCell_to_dict(self) ==
    DictOf(<< <<"type", StrV("TableCell")>>,
              <<"items", to_dict_list(self.items)>> >>)

TableRow_to_dict(self) ==
    DictOf(<< <<"type", StrV("TableRow")>>,
              <<"cells", to_dict_list(self.cells)>> >>)

Table_to_dict(self) ==
    PutEach(DictOf(<< <<"type", StrV("Table")>>,
                      <<"columns", to_dict_list(self.columns)>>,
                      <<"rows", to_dict_list(self.rows)>>,
                      <<"firstRowAsHeader", self.first_row_as_header>>,
                      <<"showGridLines", self.show_grid_lines>> >>),
            << <<Truthy(self.spacing), "spacing", self.spacing>> >>, 1)

ColumnSet_to_dict(self) ==
    PutEach(DictOf(<< <<"type", self.type>>,
                      <<"items", to_dict_list(self.items)>> >>),
            << <<Truthy(self.width), "width", self.width>> >>, 1)

BodyBlock_to_dict(self) ==
    IF Truthy(self.fact_set_block) THEN to_dict(self.fact_set_block)
    ELSE IF Truthy(self.table) THEN to_dict(self.table)
    ELSE PutEach(DictOf(<< <<"type", self.type>> >>),
            << <<self.text # NoneV, "text", self.text>>,
               <<self.weight # NoneV, "weight", self.weight>>,
               <<self.size # NoneV, "size", self.size>>,
               <<self.color # NoneV, "color", self.color>>,
               <<Truthy(self.facts), "facts", to_dict_list(self.facts)>>,
               <<Truthy(self.columns), "columns", to_dict_list(self.columns)>>,
               <<Truthy(self.items), "items", to_dict_list(self.items)>>,
               <<self.style # NoneV, "style", self.style>>,
               <<self.spacing # NoneV, "spacing", self.spacing>>,
               <<self.separator # NoneV, "separator", self.separator>>,
               <<self.horizontal_alignment # NoneV, "horizontalAlignment",
                 self.horizontal_alignment>>,
               <<self.vertical_content_alignment # NoneV, "verticalContentAlignment",
                 self.vertical_content_alignment>>,
               <<self.wrap # NoneV, "wrap", self.wrap>> >>, 1)

\* a serializer that writes the actions key whether or not there are actions
Content_to_dict_AlwaysActions(self) ==
    DictOf(<< <<"$schema", self.schema>>,
              <<"type", self.type>>,
              <<"version", self.version>>,
              <<"body", to_dict_list(self.body)>>,
              <<"actions", to_dict_list(self.actions)>> >>)

Content_to_dict(self) ==
    PutEach(DictOf(<< <<"$schema", self.schema>>,
                      <<"type", self.type>>,
                      <<"version", self.version>>,
                      <<"body", to_dict_list(self.body)>> >>),
            << <<Truthy(self.actions), "actions", to_dict_list(self.actions)>> >>, 1)

\* the attachment serialized with a null contentUrl left out
Attachment_to_dict_OmitNullUrl(self) ==
    PutEach(DictOf(<< <<"contentType", self.content_type>> >>),
            << <<self.content_url # NoneV, "contentUrl", self.content_url>>,
               <<TRUE, "content", IF Truthy(self.content) THEN to_dict(self.content)
                                  ELSE EmptyDict>> >>, 1)

Attachment_to_dict(self) ==
    DictOf(<< <<"contentType", self.content_type>>,
              <<"contentUrl", self.content_url>>,
              <<"content", IF Truthy(self.content) THEN to_dict(self.content)
                           ELSE EmptyDict>> >>)

TeamsMessage_to_dict(self) ==
    DictOf(<< <<"type", self.type>>,
              <<"attachments", to_dict_list(self.attachments)>> >>)

\* x.to_dict(): the method of x's class
to_dict(x) ==
    CASE x.cls = "FactSet" -> FactSet_to_dict(x)
      [] x.cls = "Fact" -> Fact_to_dict(x)
      [] x.cls = "FactSetBlock" -> FactSetBlock_to_dict(x)
      [] x.cls = "Action" -> Action_to_dict(x)
      [] x.cls = "TableColumn" -> TableColumn_to_dict(x)
      [] x.cls = "TableCell" -> TableCell_to_dict(x)
      [] x.cls = "TableRow" -> TableRow_to_dict(x)
      [] x.cls = "Table" -> Table_to_dict(x)
      [] x.cls = "ColumnSet" -> ColumnSet_to_dict(x)
      [] x.cls = "BodyBlock" -> BodyBlock_to_dict(x)
      [] x.cls = "Content" -> Content_to_dict(x)
      [] x.cls = "Attachment" -> Attachment_to_dict(x)
      [] x.cls = "TeamsMessage" -> TeamsMessage_to_dict(x)

(***************************************************************************)
(* The renderers (src lines 291-935 and 1004-1064).  Each returns          *)
(* Ok(TeamsMessage) or Raise(...).  now is what datetime.now().isoformat() *)
(* returns at the call.  The emoji of the source are multi-byte sequences; *)
(* they stand here as bracketed ASCII names, one per distinct emoji.       *)
(***************************************************************************)
EMOJI_CLOUDTRAIL == "[cloud]"
EMOJI_WARNING == "[warning]"
EMOJI_ERROR == "[error]"
EMOJI_SUCCESS == "[success]"
EMOJI_INFO == "[info]"
EMOJI_TIME == "[time]"
EMOJI_TARGET == "[target]"

True == BoolV(TRUE)
False == BoolV(FALSE)

\* d.get(key) or default: the default also replaces a falsy value
Get_OrDefault(dv, key, default) ==
    IF key \in DOMAIN dv.d /\ Truthy(dv.d[key]) THEN dv.d[key] ELSE default

\* d.get(key, default) for a d known to be a dict
Get(dv, key, default) == IF key \in DOMAIN dv.d THEN dv.d[key] ELSE default

\* the first failure of a sequence of results, in evaluation order
RECURSIVE FirstFailure(_, _)
FirstFailure(rs, i) ==
    IF i > Len(rs) THEN Ok(NoneV)
    ELSE IF ~rs[i].ok THEN rs[i]
    ELSE FirstFailure(rs, i + 1)

create_cloudwatch_alarm_message(message_json, now) ==
    IF message_json.t # "dict" THEN DictGet(message_json, "AlarmName", NoneV)
    ELSE
    LET alarm_name == Get(message_json, "AlarmName", StrV("Unknown Alarm"))
        old_state == Get(message_json, "OldStateValue", StrV("Unknown"))
        new_state == Get(message_json, "NewStateValue", StrV("Unknown"))
        reason == Get(message_json, "NewStateReason", StrV("No reason provided"))
        timestamp == Get(message_json, "StateChangeTime", StrV(now))
        lowered == Lower(new_state)
        firing == lowered.val = StrV("alarm")
        style == IF firing THEN "attention" ELSE "good"
        title_color == IF firing THEN "Attention" ELSE "Good"
        title_text ==
            IF firing
            THEN EMOJI_ERROR \o " " \o EMOJI_WARNING \o " CloudWatch Alarm - "
                    \o PyStr(alarm_name)
            ELSE EMOJI_SUCCESS \o " " \o EMOJI_INFO \o " CloudWatch Alarm Resolved - "
                    \o PyStr(alarm_name)
        state_color == IF firing THEN "attention" ELSE "good"
        content == Content([body |-> ListV(<<
            BodyBlock([type_ |-> StrV("Container"), style |-> StrV(style),
                items |-> ListV(<<
                    BodyBlock([type_ |-> StrV("TextBlock"), text |-> StrV(title_text),
                               weight |-> StrV("Bolder"), size |-> StrV("Large"),
                               color |-> StrV(title_color), wrap |-> True]) >>),
                spacing |-> StrV("Medium")]),
            BodyBlock([type_ |-> StrV("Container"), style |-> StrV("default"),
                spacing |-> StrV("Medium"),
                items |-> ListV(<<
                    BodyBlock([type_ |-> StrV("ColumnSet"), columns |-> ListV(<<
                        ColumnSet([width |-> StrV("auto"), items |-> ListV(<<
                            BodyBlock([type_ |-> StrV("TextBlock"),
                                       text |-> StrV(EMOJI_TARGET \o " **Alarm:**"),
                                       weight |-> StrV("Bolder"), color |-> StrV("default"),
                                       wrap |-> True]),
                            BodyBlock([type_ |-> StrV("TextBlock"),
                                       text |-> StrV("[chart] **Old State:**"),
                                       weight |-> StrV("Bolder"), color |-> StrV("default"),
                                       wrap |-> True, spacing |-> StrV("Small")]),
                            BodyBlock([type_ |-> StrV("TextBlock"),
                                       text |-> StrV("[trend] **New State:**"),
                                       weight |-> StrV("Bolder"), color |-> StrV("default"),
                                       wrap |-> True, spacing |-> StrV("Small")]),
                            BodyBlock([type_ |-> StrV("TextBlock"),
                                       text |-> StrV(EMOJI_TIME \o " **Timestamp:**"),
                                       weight |-> StrV("Bolder"), color |-> StrV("default"),
                                       wrap |-> True, spacing |-> StrV("Small")]) >>)]),
                        ColumnSet([width |-> StrV("stretch"), items |-> ListV(<<
                            BodyBlock([type_ |-> StrV("TextBlock"), text |-> alarm_name,
                                       color |-> StrV(state_color), wrap |-> True]),
                            BodyBlock([type_ |-> StrV("TextBlock"), text |-> old_state,
                                       color |-> StrV("default"), wrap |-> True,
                                       spacing |-> StrV("Small")]),
                            BodyBlock([type_ |-> StrV("TextBlock"), text |-> new_state,
                                       color |-> StrV(state_color), wrap |-> True,
                                       spacing |-> StrV("Small")]),
                            BodyBlock([type_ |-> StrV("TextBlock"), text |-> timestamp,
                                       color |-> StrV("default"), wrap |-> True,
                                       spacing |-> StrV("Small")]) >>)]) >>)]) >>)]),
            BodyBlock([type_ |-> StrV("Container"), style |-> StrV("default"),
                spacing |-> StrV("Medium"),
                items |-> ListV(<<
                    BodyBlock([type_ |-> StrV("TextBlock"),
                               text |-> StrV(EMOJI_INFO \o " **Reason:**"),
                               weight |-> StrV("Bolder"), size |-> StrV("Medium"),
                               color |-> StrV("default"), wrap |-> True]),
                    BodyBlock([type_ |-> StrV("TextBlock"), text |-> reason,
                               color |-> StrV("default"), wrap |-> True,
                               spacing |-> StrV("Small")]) >>)]) >>)])
        attachment == Attachment([content |-> content])
    IN  IF ~lowered.ok THEN lowered
        ELSE Ok(TeamsMessage([attachments |-> ListV(<<attachment>>)]))

create_generic_message(sns_record, now) ==
    IF sns_record.t # "dict" THEN DictGet(sns_record, "Subject", NoneV)
    ELSE
    LET subject == Get(sns_record, "Subject", StrV("Unknown Subject"))
        message_body == Get(sns_record, "Message", StrV("No message body"))
        timestamp == Get(sns_record, "Timestamp", StrV(now))
        topic_arn == Get(sns_record, "TopicArn", StrV("Unknown Topic"))
        message_id == Get(sns_record, "MessageId", StrV("Unknown Message ID"))
        content == Content([body |-> ListV(<<
            BodyBlock([type_ |-> StrV("Container"), style |-> StrV("attention"),
                items |-> ListV(<<
                    BodyBlock([type_ |-> StrV("TextBlock"),
                               text |-> StrV(EMOJI_WARNING \o " " \o EMOJI_INFO
                                             \o " AWS Notification - " \o PyStr(subject)),
                               weight |-> StrV("Bolder"), size |-> StrV("Large"),
                               color |-> StrV("Attention"), wrap |-> True]) >>),
                spacing |-> StrV("Medium")]),
            BodyBlock([type_ |-> StrV("Container"), style |-> StrV("default"),
                spacing |-> StrV("Medium"),
                items |-> ListV(<<
                    BodyBlock([type_ |-> StrV("ColumnSet"), columns |-> ListV(<<
                        ColumnSet([width |-> StrV("auto"), items |-> ListV(<<
                            BodyBlock([type_ |-> StrV("TextBlock"),
                                       text |-> StrV("[clipboard] **Subject:**"),
                                       weight |-> StrV("Bolder"), color |-> StrV("default"),
                                       wrap |-> True]),
                            BodyBlock([type_ |-> StrV("TextBlock"),
                                       text |-> StrV("[link] **Topic ARN:**"),
                                       weight |-> StrV("Bolder"), color |-> StrV("default"),
                                       wrap |-> True, spacing |-> StrV("Small")]),
                            BodyBlock([type_ |-> StrV("TextBlock"),
                                       text |-> StrV("[id] **Message ID:**"),
                                       weight |-> StrV("Bolder"), color |-> StrV("default"),
                                       wrap |-> True, spacing |-> StrV("Small")]),
                            BodyBlock([type_ |-> StrV("TextBlock"),
                                       text |-> StrV(EMOJI_TIME \o " **Timestamp:**"),
                                       weight |-> StrV("Bolder"), color |-> StrV("default"),
                                       wrap |-> True, spacing |-> StrV("Small")]) >>)]),
                        ColumnSet([width |-> StrV("stretch"), items |-> ListV(<<
                            BodyBlock([type_ |-> StrV("TextBlock"), text |-> subject,
                                       color |-> StrV("attention"), wrap |-> True]),
                            BodyBlock([type_ |-> StrV("TextBlock"), text |-> topic_arn,
                                       color |-> StrV("default"), wrap |-> True,
                                       spacing |-> StrV("Small")]),
                            BodyBlock([type_ |-> StrV("TextBlock"), text |-> message_id,
                                       color |-> StrV("default"), wrap |-> True,
                                       spacing |-> StrV("Small")]),
                            BodyBlock([type_ |-> StrV("TextBlock"), text |-> timestamp,
                                       color |-> StrV("default"), wrap |-> True,
                                       spacing |-> StrV("Small")]) >>)]) >>)]) >>)]),
            BodyBlock([type_ |-> StrV("Container"), style |-> StrV("default"),
                spacing |-> StrV("Medium"),
                items |-> ListV(<<
                    BodyBlock([type_ |-> StrV("TextBlock"),
                               text |-> StrV(EMOJI_INFO \o " **Message:**"),
                               weight |-> StrV("Bolder"), size |-> StrV("Medium"),
                               color |-> StrV("default"), wrap |-> True]),
                    BodyBlock([type_ |-> StrV("TextBlock"), text |-> message_body,
                               color |-> StrV("default"), wrap |-> True,
                               spacing |-> StrV("Small")]) >>)]) >>)])
        attachment == Attachment([content |-> content])
    IN  Ok(TeamsMessage([attachments |-> ListV(<<attachment>>)]))

create_cloudtrail_message(message_json_detail) ==
    IF message_json_detail.t # "dict"
    THEN DictGet(message_json_detail, "eventName", NoneV)
    ELSE
    LET alarm_name == Get(message_json_detail, "eventName", StrV("Unknown Event"))
        event_type == Get(message_json_detail, "eventType", StrV("Unknown Type"))
        event_id == Get(message_json_detail, "eventID", StrV("Unknown ID"))
        event_time == Get(message_json_detail, "eventTime", StrV("Unknown Time"))
        reason == Get(message_json_detail, "errorMessage",
                      StrV("No error message provided"))
        content == Content([body |-> ListV(<<
            BodyBlock([type_ |-> StrV("Container"), style |-> StrV("good"),
                items |-> ListV(<<
                    BodyBlock([type_ |-> StrV("TextBlock"),
                               text |-> StrV(EMOJI_CLOUDTRAIL \o " " \o EMOJI_SUCCESS
                                             \o " CloudTrail Event"),
                               weight |-> StrV("Bolder"), size |-> StrV("Large"),
                               color |-> StrV("Good"), wrap |-> True]) >>),
                spacing |-> StrV("Medium")]),
            BodyBlock([type_ |-> StrV("Container"), style |-> StrV("default"),
                spacing |-> StrV("Medium"),
                items |-> ListV(<<
                    BodyBlock([type_ |-> StrV("ColumnSet"), columns |-> ListV(<<
                        ColumnSet([width |-> StrV("auto"), items |-> ListV(<<
                            BodyBlock([type_ |-> StrV("TextBlock"),
                                       text |-> StrV(EMOJI_TARGET \o " **Action:**"),
                                       weight |-> StrV("Bolder"), color |-> StrV("default"),
                                       wrap |-> True]),
                            BodyBlock([type_ |-> StrV("TextBlock"),
                                       text |-> StrV("[globe] **Type:**"),
                                       weight |-> StrV("Bolder"), color |-> StrV("default"),
                                       wrap |-> True, spacing |-> StrV("Small")]),
                            BodyBlock([type_ |-> StrV("TextBlock"),
                                       text |-> StrV("[link] **Event ID:**"),
                                       weight |-> StrV("Bolder"), color |-> StrV("default"),
                                       wrap |-> True, spacing |-> StrV("Small")]),
                            BodyBlock([type_ |-> StrV("TextBlock"),
                                       text |-> StrV(EMOJI_TIME \o " **Timestamp:**"),
                                       weight |-> StrV("Bolder"), color |-> StrV("default"),
                                       wrap |-> True, spacing |-> StrV("Small")]) >>)]),
                        ColumnSet([width |-> StrV("stretch"), items |-> ListV(<<
                            BodyBlock([type_ |-> StrV("TextBlock"), text |-> alarm_name,
                                       color |-> StrV("good"), wrap |-> True]),
                            BodyBlock([type_ |-> StrV("TextBlock"), text |-> event_type,
                                       color |-> StrV("default"), wrap |-> True,
                                       spacing |-> StrV("Small")]),
                            BodyBlock([type_ |-> StrV("TextBlock"), text |-> event_id,
                                       color |-> StrV("default"), wrap |-> True,
                                       spacing |-> StrV("Small")]),
                            BodyBlock([type_ |-> StrV("TextBlock"), text |-> event_time,
                                       color |-> StrV("default"), wrap |-> True,
                                       spacing |-> StrV("Small")]) >>)]) >>)]) >>)]),
            BodyBlock([type_ |-> StrV("Container"), style |-> StrV("attention"),
                spacing |-> StrV("Medium"),
                items |-> ListV(<<
                    BodyBlock([type_ |-> StrV("TextBlock"),
                               text |-> StrV(EMOJI_ERROR \o " Error Details"),
                               weight |-> StrV("Bolder"), size |-> StrV("Medium"),
                               color |-> StrV("attention"), wrap |-> True]),
                    BodyBlock([type_ |-> StrV("Container"), style |-> StrV("default"),
                        spacing |-> StrV("Small"),
                        items |-> ListV(<<
                            BodyBlock([type_ |-> StrV("TextBlock"), text |-> reason,
                                       color |-> StrV("attention"), wrap |-> True,
                                       weight |-> StrV("Default")]) >>)]) >>)]) >>)])
        attachment == Attachment([content |-> content])
    IN  Ok(TeamsMessage([attachments |-> ListV(<<attachment>>)]))

create_error_message(error_text, now) ==
    LET content == Content([body |-> ListV(<<
            BodyBlock([type_ |-> StrV("Container"), style |-> StrV("attention"),
                items |-> ListV(<<
                    BodyBlock([type_ |-> StrV("TextBlock"),
                               text |-> StrV(EMOJI_ERROR \o " " \o EMOJI_WARNING
                                             \o " Lambda Function Error"),
                               weight |-> StrV("Bolder"), size |-> StrV("Large"),
                               color |-> StrV("Attention"), wrap |-> True]) >>),
                spacing |-> StrV("Medium")]),
            BodyBlock([type_ |-> StrV("Container"), style |-> StrV("default"),
                spacing |-> StrV("Medium"),
                items |-> ListV(<<
                    BodyBlock([type_ |-> StrV("TextBlock"),
                               text |-> StrV(EMOJI_ERROR \o " **Error Details:**"),
                               weight |-> StrV("Bolder"), size |-> StrV("Medium"),
                               color |-> StrV("attention"), wrap |-> True]),
                    BodyBlock([type_ |-> StrV("TextBlock"), text |-> StrV(error_text),
                               color |-> StrV("attention"), wrap |-> True,
                               spacing |-> StrV("Small")]),
                    BodyBlock([type_ |-> StrV("TextBlock"),
                               text |-> StrV(EMOJI_TIME \o " **Timestamp:**"),
                               weight |-> StrV("Bolder"), color |-> StrV("default"),
                               wrap |-> True, spacing |-> StrV("Small")]),
                    BodyBlock([type_ |-> StrV("TextBlock"), text |-> StrV(now),
                               color |-> StrV("default"), wrap |-> True,
                               spacing |-> StrV("Small")]) >>)]) >>)])
        attachment == Attachment([content |-> content])
    IN  TeamsMessage([attachments |-> ListV(<<attachment>>)])

\* format_currency (src lines 320-321)
format_currency(amount) ==
    LET f == FormatFixed(amount, 2)
    IN  IF f.ok THEN Ok("$" \o f.val) ELSE f

\* one turn of the loop over root_causes (src lines 450-463): the row of cause
cost_anomaly_row(cause) ==
    IF cause.t # "dict" THEN DictGet(cause, "service", NoneV)
    ELSE
    LET service0 == Get(cause, "service", StrV("Unknown Service"))
        account_name == Get(cause, "linkedAccountName", StrV("Unknown"))
        impact_contrib == Get(cause, "impactContribution", IntV(0))
        n == PyLen(service0)
        cut == SlicePrefix(service0, 32)
        service ==
            IF n.val <= 35 THEN Ok(service0)
            ELSE IF ~cut.ok THEN cut
            ELSE IF cut.val.t = "str" THEN Ok(StrV(cut.val.s \o "..."))
            ELSE Raise("TypeError", "can only concatenate list (not \"str\") to list")
        pct == FormatFixed(impact_contrib, 1)
    IN  IF ~n.ok THEN n
        ELSE IF ~service.ok THEN service
        ELSE IF ~pct.ok THEN pct
        ELSE Ok(TableRow(ListV(<<
            TableCell(ListV(<<BodyBlock([type_ |-> StrV("TextBlock"),
                text |-> service.val, wrap |-> True, size |-> StrV("Small")])>>)),
            TableCell(ListV(<<BodyBlock([type_ |-> StrV("TextBlock"),
                text |-> account_name, wrap |-> True, size |-> StrV("Small")])>>)),
            TableCell(ListV(<<BodyBlock([type_ |-> StrV("TextBlock"),
                text |-> StrV(pct.val \o "%"), wrap |-> True, size |-> StrV("Small"),
                color |-> StrV("attention")])>>)) >>)))

\* the elements a for loop draws from v: a list's items, a str's characters
IterItems(v) ==
    IF v.t = "list" THEN v.l ELSE [i \in 1..Len(v.s) |-> StrV(Ch(v.s, i))]

\* a loop that puts each new row before the rows already made
RECURSIVE cost_anomaly_rows_Reversed(_, _, _)
cost_anomaly_rows_Reversed(causes, i, acc) ==
    IF i > Len(causes) THEN Ok(ListV(acc))
    ELSE LET row == cost_anomaly_row(causes[i])
         IN  IF ~row.ok THEN row
             ELSE cost_anomaly_rows_Reversed(causes, i + 1, <<row.val>> \o acc)

\* data_rows after the loop, or the first failure in it
RECURSIVE cost_anomaly_rows(_, _, _)
cost_anomaly_rows(causes, i, acc) ==
    IF i > Len(causes) THEN Ok(ListV(acc))
    ELSE LET row == cost_anomaly_row(causes[i])
         IN  IF ~row.ok THEN row
             ELSE cost_anomaly_rows(causes, i + 1, Append(acc, row.val))

create_cost_anomaly_message(message_json) ==
    IF message_json.t # "dict" THEN DictGet(message_json, "accountName", NoneV)
    ELSE
    LET account_name == Get(message_json, "accountName", StrV("Unknown Account"))
        monitor_name == Get(message_json, "monitorName", StrV("Unknown Monitor"))
        anomaly_start == Get(message_json, "anomalyStartDate", StrV(""))
        anomaly_end == Get(message_json, "anomalyEndDate", StrV(""))
        impact == Get(message_json, "impact", EmptyDict)
        impact_chk == DictGet(impact, "totalActualSpend", IntV(0))
        total_actual == Get(impact, "totalActualSpend", IntV(0))
        total_expected == Get(impact, "totalExpectedSpend", IntV(0))
        total_impact == Get(impact, "totalImpact", IntV(0))
        impact_percentage == Get(impact, "totalImpactPercentage", IntV(0))
        anomaly_score == Get(message_json, "anomalyScore", EmptyDict)
        score_chk == DictGet(anomaly_score, "currentScore", IntV(0))
        current_score == Get(anomaly_score, "currentScore", IntV(0))
        max_score == Get(anomaly_score, "maxScore", IntV(0))
        root_causes == SlicePrefix(Get(message_json, "rootCauses", EmptyList), 5)
        details_link == Get(message_json, "anomalyDetailsLink", StrV(""))
        start10 == SlicePrefix(anomaly_start, 10)
        end10 == SlicePrefix(anomaly_end, 10)
        cur2 == FormatFixed(current_score, 2)
        max2 == FormatFixed(max_score, 2)
        expected == format_currency(total_expected)
        actual == format_currency(total_actual)
        overspend == format_currency(total_impact)
        pct1 == FormatFixed(impact_percentage, 1)
        texts == FirstFailure(<<start10, end10, cur2, max2, expected, actual,
                                overspend, pct1>>, 1)
        body_blocks == <<
            BodyBlock([type_ |-> StrV("Container"), style |-> StrV("attention"),
                items |-> ListV(<<
                    BodyBlock([type_ |-> StrV("TextBlock"),
                               text |-> StrV("[money] [warning] AWS Cost Anomaly Detected"),
                               weight |-> StrV("Bolder"), size |-> StrV("Large"),
                               color |-> StrV("Attention"), wrap |-> True]) >>),
                spacing |-> StrV("Medium")]),
            BodyBlock([fact_set_block |-> FactSetBlock([facts |-> ListV(<<
                    Fact(StrV("[chart] Account"), account_name),
                    Fact(StrV("[search] Monitor"), monitor_name),
                    Fact(StrV("[calendar] Period"),
                         StrV(PyStr(start10.val) \o " to " \o PyStr(end10.val))),
                    Fact(StrV("[target] Anomaly Score"),
                         StrV(cur2.val \o " (max: " \o max2.val \o ")")) >>),
                spacing |-> StrV("Medium")])]),
            BodyBlock([type_ |-> StrV("Container"), style |-> StrV("emphasis"),
                spacing |-> StrV("Large"),
                items |-> ListV(<<
                    BodyBlock([type_ |-> StrV("TextBlock"),
                               text |-> StrV("[money] **Cost Impact Analysis**"),
                               weight |-> StrV("Bolder"), size |-> StrV("Medium"),
                               color |-> StrV("default"), wrap |-> True]),
                    BodyBlock([type_ |-> StrV("ColumnSet"), spacing |-> StrV("Medium"),
                        columns |-> ListV(<<
                            ColumnSet([width |-> StrV("50%"), items |-> ListV(<<
                                BodyBlock([type_ |-> StrV("TextBlock"),
                                           text |-> StrV("**Expected Spend:**"),
                                           weight |-> StrV("Bolder"), color |-> StrV("good"),
                                           wrap |-> True]),
                                BodyBlock([type_ |-> StrV("TextBlock"),
                                           text |-> StrV(expected.val),
                                           color |-> StrV("good"), size |-> StrV("Large"),
                                           weight |-> StrV("Bolder"), wrap |-> True]) >>)]),
                            ColumnSet([width |-> StrV("50%"), items |-> ListV(<<
                                BodyBlock([type_ |-> StrV("TextBlock"),
                                           text |-> StrV("**Actual Spend:**"),
                                           weight |-> StrV("Bolder"),
                                           color |-> StrV("attention"), wrap |-> True]),
                                BodyBlock([type_ |-> StrV("TextBlock"),
                                           text |-> StrV(actual.val),
                                           color |-> StrV("attention"), size |-> StrV("Large"),
                                           weight |-> StrV("Bolder"), wrap |-> True]) >>)])
                        >>)]),
                    BodyBlock([type_ |-> StrV("Container"), style |-> StrV("attention"),
                        spacing |-> StrV("Small"),
                        items |-> ListV(<<
                            BodyBlock([type_ |-> StrV("TextBlock"),
                                       text |-> StrV("**Overspend: " \o overspend.val \o " ("
                                                     \o pct1.val \o "% increase)**"),
                                       weight |-> StrV("Bolder"), size |-> StrV("Medium"),
                                       color |-> StrV("attention"), wrap |-> True,
                                       horizontal_alignment |-> StrV("Center")]) >>)]) >>)])
            >>
        table_columns == ListV(<<TableColumn([width |-> StrV("3")]),
                                 TableColumn([width |-> StrV("2")]),
                                 TableColumn([width |-> StrV("1")])>>)
        header_row == TableRow(ListV(<<
            TableCell(ListV(<<BodyBlock([type_ |-> StrV("TextBlock"),
                text |-> StrV("**Service**"), weight |-> StrV("Bolder"), wrap |-> True])>>)),
            TableCell(ListV(<<BodyBlock([type_ |-> StrV("TextBlock"),
                text |-> StrV("**Account**"), weight |-> StrV("Bolder"), wrap |-> True])>>)),
            TableCell(ListV(<<BodyBlock([type_ |-> StrV("TextBlock"),
                text |-> StrV("**Impact %**"), weight |-> StrV("Bolder"), wrap |-> True])>>))
            >>))
        data_rows == cost_anomaly_rows(IterItems(root_causes.val), 1, <<>>)
        n_causes == PyLen(root_causes.val).val
        table_block ==
            BodyBlock([type_ |-> StrV("Container"), style |-> StrV("default"),
                spacing |-> StrV("Large"),
                items |-> ListV(<<
                    BodyBlock([type_ |-> StrV("TextBlock"),
                               text |-> StrV("[search] **Top " \o ToString(n_causes)
                                             \o " Contributing Services**"),
                               weight |-> StrV("Bolder"), size |-> StrV("Medium"),
                               color |-> StrV("default"), wrap |-> True]),
                    BodyBlock([table |-> Table([
                        columns |-> table_columns,
                        rows |-> ListV(<<header_row>> \o data_rows.val.l),
                        first_row_as_header |-> True,
                        show_grid_lines |-> True,
                        spacing |-> StrV("Small")])]) >>)])
        with_table == IF Truthy(root_causes.val) THEN Append(body_blocks, table_block)
                      ELSE body_blocks
        actions == IF Truthy(details_link)
                   THEN <<Action([type_ |-> StrV("Action.OpenUrl"),
                                  title |-> StrV("[link] View in AWS Console"),
                                  url |-> details_link,
                                  style |-> StrV("positive")])>>
                   ELSE <<>>
        content == Content([body |-> ListV(with_table), actions |-> ListV(actions)])
        attachment == Attachment([content |-> content])
    IN  IF ~impact_chk.ok THEN impact_chk
        ELSE IF ~score_chk.ok THEN score_chk
        ELSE IF ~root_causes.ok THEN root_causes
        ELSE IF ~texts.ok THEN texts
        ELSE IF Truthy(root_causes.val) /\ ~data_rows.ok THEN data_rows
        ELSE Ok(TeamsMessage([attachments |-> ListV(<<attachment>>)]))

(***************************************************************************)
(* Classification (src lines 955-962, 975-990, 1067-1075)                  *)
(***************************************************************************)
is_cost_anomaly_message(message_json) ==
    Then(PyIn("accountId", message_json), LAMBDA a :
        Ok(a /\ PyIn("anomalyId", message_json).val
             /\ PyIn("monitorArn", message_json).val
             /\ PyIn("impact", message_json).val))

Selected(kind, source, logged) == [kind |-> kind, source |-> source, logged |-> logged]

\* the elif chain with the cost-anomaly test moved before the CloudTrail test
SelectOther_CostFirst(message_json, sns_record) ==
    IF is_cost_anomaly_message(message_json).val
    THEN Selected("CostAnomaly", Ok(message_json),
                  <<"Processing AWS Cost Anomaly message">>)
    ELSE Bind(IF PyIn("detail-type", message_json).val
              THEN GetItemKey(message_json, "detail-type") ELSE Ok(NoneV),
              LAMBDA detailType :
        IF ~detailType.ok THEN Selected("none", detailType, <<>>)
        ELSE IF detailType.val = StrV("AWS Service Event via CloudTrail")
        THEN Selected("AuditEvent", GetItemKey(message_json, "detail"),
                      <<"Processing CloudTrail message">>)
        ELSE Selected("Generic", Ok(sns_record),
                      <<"Processing generic SNS message - no specific handler found">>))

\* a ValueError raised inside the try block makes the function return False
CatchValueError(r) ==
    Bind(r, LAMBDA x : IF ~x.ok /\ IsValueError(x.exc) THEN Ok(FALSE) ELSE x)

\* only a ValueError of the re-parse is caught; a failure of the subscript
\* message_json['AlarmName'] leaves the function as an exception
is_cloudwatch_alarm(message) ==
    CatchValueError(
        Then(json_loads(message), LAMBDA parsed :
        Then(GetItemKey(parsed, "AlarmName"), LAMBDA name :
        Ok(Truthy(name)))))


\* the elif chain after the AlarmName test of lambda_handler
SelectOther(message_json, sns_record) ==
    Bind(PyIn("detail-type", message_json).val, LAMBDA hasType :
    Bind(IF hasType THEN GetItemKey(message_json, "detail-type") ELSE Ok(NoneV),
         LAMBDA detailType :
        IF ~detailType.ok THEN Selected("none", detailType, <<>>)
        ELSE IF hasType /\ detailType.val = StrV("AWS Service Event via CloudTrail")
        THEN Selected("AuditEvent", GetItemKey(message_json, "detail"),
                      <<"Processing CloudTrail message">>)
        ELSE IF is_cost_anomaly_message(message_json).val
        THEN Selected("CostAnomaly", Ok(message_json),
                      <<"Processing AWS Cost Anomaly message">>)
        ELSE Selected("Generic", Ok(sns_record),
                      <<"Processing generic SNS message - no specific handler found">>)))

\* the branch under `if 'AlarmName' in message_json`
SelectAlarm(message, message_json, sns_record) ==
    Bind(is_cloudwatch_alarm(message), LAMBDA isAlarm :
        IF ~isAlarm.ok THEN Selected("none", isAlarm, <<>>)
        ELSE IF isAlarm.val
        THEN Selected("Alarm", Ok(message_json),
                      <<"Processing CloudWatch alarm message">>)
        ELSE Selected("Generic", Ok(sns_record),
                      <<"Processing generic SNS message">>))

\* the if/elif chain of lambda_handler: the branch taken, the argument its
\* renderer is called with (Ok(value), or the exception raised by the test
\* or by the argument), and the line logged on entering the branch
SelectRenderer(message, message_json, sns_record) ==
    Bind(PyIn("AlarmName", message_json), LAMBDA hasAlarm :
        IF ~hasAlarm.ok THEN Selected("none", hasAlarm, <<>>)
        ELSE IF hasAlarm.val THEN SelectAlarm(message, message_json, sns_record)
        ELSE SelectOther(message_json, sns_record))

\* the renderer call of the branch taken
RenderKind(kind, source, now) ==
    CASE kind = "Alarm" -> create_cloudwatch_alarm_message(source, now)
      [] kind = "Generic" -> create_generic_message(source, now)
      [] kind = "AuditEvent" -> create_cloudtrail_message(source)
      [] kind = "CostAnomaly" -> create_cost_anomaly_message(source)

\* message = event['Records'][0]['Sns']['Message'] (src line 969): Ok of the
\* text and of the record it was read from, or the first exception
ExtractMessage(event) ==
    Then(GetItemKey(event, "Records"), LAMBDA records :
    Then(GetItem0(records), LAMBDA first :
    Then(GetItemKey(first, "Sns"), LAMBDA sns :
    Then(GetItemKey(sns, "Message"), LAMBDA message :
        Ok([message |-> message, sns_record |-> sns])))))

\* src lines 969-971: Ok of the three locals, or the first exception
ExtractPayload(event) ==
    Then(ExtractMessage(event), LAMBDA got :
    Then(json_loads(got.message), LAMBDA message_json :
        Ok([message |-> got.message, message_json |-> message_json,
            sns_record |-> got.sns_record])))

(***************************************************************************)
(* Inputs.  An event is the value the Lambda runtime hands to the handler: *)
(* decoded JSON.  Messages are the texts of Sns.Message; the handler       *)
(* parses them itself.                                                     *)
(***************************************************************************)
\* the records of an event beyond the first are at most this many
MaxExtraRecords == 1

CloudTrailType == "\"detail-type\":\"AWS Service Event via CloudTrail\""
CostKeys == "\"accountId\":\"123\",\"anomalyId\":\"a-1\",\"monitorArn\":\"arn:m\",\"impact\":"

AlarmMessages ==
    { "{\"AlarmName\":\"cpu-high\",\"NewStateValue\":\"ALARM\",\"OldStateValue\":\"OK\",\"NewStateReason\":\"threshold breached\"}",
      "{\"AlarmName\":\"cpu-high\",\"NewStateValue\":\"OK\",\"StateChangeTime\":\"2024-05-01T10:00:00\"}",
      "{\"AlarmName\":\"disk\",\"NewStateValue\":\"Alarm\",\"NewStateReason\":\"\"}",
      "{\"AlarmName\":\"disk\"}",
      "{\"AlarmName\":\"caf\\u0065 \\b\\u0031\",\"NewStateValue\":\"\\u0041larm\"}",
      "{\"AlarmName\":\"disk\",\"NewStateValue\":null}",
      "{\"AlarmName\":\"disk\",\"NewStateValue\":5,\"OldStateValue\":null}",
      "{\"AlarmName\":7,\"NewStateValue\":\"INSUFFICIENT_DATA\"}",
      "{\"AlarmName\":\"\",\"NewStateValue\":\"ALARM\"}",
      "{\"AlarmName\":null}",
      "{\"AlarmName\":0}",
      "{\"AlarmName\":false}",
      "{\"AlarmName\":\"both\"," \o CloudTrailType \o ",\"detail\":{}}",
      "{\"AlarmName\":\"all\"," \o CloudTrailType \o "," \o CostKeys \o "{}}",
      "{\"AlarmName\":\"\"," \o CostKeys \o "{}}",
      "\"AlarmName\"",
      "\"see AlarmName cpu-high\"",
      "[\"AlarmName\"]" }

AuditMessages ==
    { "{" \o CloudTrailType \o ",\"detail\":{\"eventName\":\"StopInstances\",\"errorMessage\":\"Access Denied\"}}",
      "{" \o CloudTrailType \o ",\"detail\":{}}",
      "{" \o CloudTrailType \o ",\"detail\":{\"eventName\":\"PutObject\",\"errorMessage\":\"\"}}",
      "{" \o CloudTrailType \o ",\"detail\":{\"errorMessage\":null,\"eventType\":\"AwsApiCall\"}}",
      "{" \o CloudTrailType \o ",\"detail\":{\"eventName\":null,\"eventID\":\"\",\"eventTime\":\"2024-05-01T10:00:00Z\"}}",
      "{" \o CloudTrailType \o "}",
      "{" \o CloudTrailType \o ",\"detail\":\"text\"}",
      "{" \o CloudTrailType \o ",\"detail\":{\"eventName\":\"PutObject\"}," \o CostKeys \o "{}}",
      "{\"detail-type\":\"EC2 Instance State-change Notification\",\"detail\":{}}",
      "{\"detail-type\":\"aws service event via cloudtrail\"," \o CostKeys \o "{}}",
      "\"detail-type\"",
      "[\"detail-type\"]" }

CostMessages ==
    { "{" \o CostKeys \o "{}}",
      "{" \o CostKeys \o "{\"totalActualSpend\":12.5,\"totalExpectedSpend\":3,\"totalImpact\":9.5,\"totalImpactPercentage\":316.67},"
          \o "\"accountName\":\"prod\",\"monitorName\":\"all\",\"anomalyStartDate\":\"2024-05-01T00:00:00Z\",\"anomalyEndDate\":\"2024-05-02T00:00:00Z\","
          \o "\"anomalyScore\":{\"currentScore\":0.47,\"maxScore\":0.9},\"anomalyDetailsLink\":\"https://console.aws/a-1\","
          \o "\"rootCauses\":[{\"service\":\"Amazon Elastic Compute Cloud - Compute\",\"linkedAccountName\":\"dev\",\"impactContribution\":55.25},{\"service\":\"S3\"}]}",
      "{" \o CostKeys \o "{},\"accountName\":null}",
      "{" \o CostKeys \o "{},\"anomalyDetailsLink\":\"\",\"rootCauses\":[]}",
      "{" \o CostKeys \o "{\"totalImpact\":\"9.5\"}}",
      "{" \o CostKeys \o "{\"totalActualSpend\":12345.678,\"totalExpectedSpend\":-7,\"totalImpact\":0.125,\"totalImpactPercentage\":0.25}}",
      "{" \o CostKeys \o "{\"totalActualSpend\":1.5e+3,\"totalExpectedSpend\":0.999,\"totalImpact\":1e2,\"totalImpactPercentage\":99.96}}",
      "{" \o CostKeys \o "{\"totalActualSpend\":-1e999,\"totalExpectedSpend\":NaN,\"totalImpact\":1e999,\"totalImpactPercentage\":12E0}}",
      "{" \o CostKeys \o "null}",
      "{" \o CostKeys \o "{\"totalActualSpend\":2.675,\"totalExpectedSpend\":-0.0,\"totalImpact\":1e-400,\"totalImpactPercentage\":0.15}}",
      "{" \o CostKeys \o "{},\"anomalyStartDate\":null}",
      "{" \o CostKeys \o "{},\"rootCauses\":[{},{},{},{},{},{}]}",
      "{" \o CostKeys \o "{},\"rootCauses\":[\"EC2\"]}",
      "{" \o CostKeys \o "{},\"anomalyDetailsLink\":null}",
      "{" \o CostKeys \o "{},\"accountName\":\"prod\",\"rootCauses\":\"\"}",
      "{" \o CostKeys \o "{},\"anomalyDetailsLink\":5}",
      "{" \o CostKeys \o "{},\"accountName\":\"prod\",\"rootCauses\":[{\"service\":\"Amazon Elastic Kubernetes Service X\",\"linkedAccountName\":\"a1\"},"
          \o "{\"service\":\"Amazon Elastic Kubernetes Service XY\",\"linkedAccountName\":\"a2\",\"impactContribution\":12},{\"service\":\"S3\"},"
          \o "{\"service\":\"\"},{\"service\":\"fifth\"},{\"service\":\"sixth\"},{\"service\":\"seventh\"}]}",
      "{\"accountId\":\"123\",\"anomalyId\":\"a-1\",\"monitorArn\":\"arn:m\"}",
      "\"accountId anomalyId monitorArn impact\"",
      "[\"accountId\",\"anomalyId\",\"monitorArn\",\"impact\"]" }

OtherMessages ==
    { "{}", "{\"default\":\"hello\"}", "\"hello\"", "[1]", "[]",
      "5", "null", "true", "1.5",
      "", "not json", "{\"AlarmName\":\"cpu-high\"", "{\"AlarmName\"}", "{} {}",
      "{\n \"default\" 1}", "\"tab\\u00zz\"" }

Messages == AlarmMessages \cup AuditMessages \cup CostMessages \cup OtherMessages

\* the SNS record's Sns mapping around a message text
Envelopes(text) ==
    { DictOf(<< <<"Message", StrV(text)>> >>),
      DictOf(<< <<"Subject", NoneV>>, <<"Message", StrV(text)>>,
                <<"Timestamp", StrV("2024-05-01T10:00:01.000Z")>> >>),
      DictOf(<< <<"Type", StrV("Notification")>>,
                <<"MessageId", StrV("m-1")>>,
                <<"TopicArn", StrV("arn:aws:sns:eu-west-1:123:alerts")>>,
                <<"Subject", StrV("ALARM: cpu-high")>>,
                <<"Message", StrV(text)>>,
                <<"Timestamp", StrV("2024-05-01T10:00:01.000Z")>> >>) }

RecordOf(sns) == DictOf(<< <<"EventSource", StrV("aws:sns")>>, <<"Sns", sns>> >>)

\* a record that follows the first one: an alarm of its own
ExtraRecord ==
    RecordOf(DictOf(<< <<"Subject", StrV("second")>>,
                       <<"Message", StrV("{\"AlarmName\":\"second\",\"NewStateValue\":\"ALARM\"}")>> >>))

RECURSIVE Repeat(_, _)
Repeat(x, n) == IF n <= 0 THEN <<>> ELSE <<x>> \o Repeat(x, n - 1)

\* the keys an event may carry beside Records: none, or keys that name an
\* alarm and an audit event of their own
TopLevelKeys ==
    { <<>>,
      << <<"AlarmName", StrV("top")>>, <<"NewStateValue", StrV("ALARM")>>,
         <<"detail-type", StrV("AWS Service Event via CloudTrail")>> >> }

EventOf(sns, extra, top) ==
    DictOf(<< <<"Records", ListV(<<RecordOf(sns)>> \o Repeat(ExtraRecord, extra))>> >>
           \o top)

WellFormedEvents ==
    { EventOf(sns, extra, top) :
        sns \in UNION { Envelopes(text) : text \in Messages },
        extra \in 0..MaxExtraRecords,
        top \in TopLevelKeys }

MalformedEvents ==
    { EmptyDict,
      NoneV,
      EmptyList,
      DictOf(<< <<"Records", EmptyList>> >>),
      DictOf(<< <<"Records", NoneV>> >>),
      DictOf(<< <<"Records", ListV(<<EmptyDict>>)>> >>),
      DictOf(<< <<"Records", ListV(<<RecordOf(EmptyDict)>>)>> >>),
      DictOf(<< <<"Records", ListV(<<RecordOf(NoneV)>>)>> >>),
      DictOf(<< <<"Records", ListV(<<RecordOf(DictOf(<< <<"Message", NoneV>> >>))>>)>> >>),
      DictOf(<< <<"Records", ListV(<<RecordOf(DictOf(<< <<"Message", IntV(5)>> >>))>>)>> >>),
      DictOf(<< <<"Records", ListV(<<RecordOf(
          DictOf(<< <<"Message", DictOf(<< <<"AlarmName", StrV("x")>> >>)>> >>))>>)>> >>) }

Events == WellFormedEvents \cup MalformedEvents

\* what datetime.now().isoformat() reads during the invocation
Clock == {"2024-05-01T10:00:02.123456", "2024-05-01T10:00:03.654321"}

(***************************************************************************)
(* The outbound call (src lines 938-952).  urlopen and response.read end   *)
(* in one of: a response; HTTPError; URLError; an exception that is        *)
(* neither (http.client.RemoteDisconnected, IncompleteRead, a socket       *)
(* timeout or reset while reading); or they never end (the call has no     *)
(* timeout).                                                               *)
(***************************************************************************)
HttpOutcomes == {"response", "HTTPError", "URLError", "other", "hang"}

OtherHttpException ==
    [type |-> "RemoteDisconnected",
     msg |-> "Remote end closed connection without response"]

\* send_teams_message after the POST with the given outcome: the line it
\* logs, and the exception that leaves it (only the two urllib classes are
\* caught)
send_teams_message(outcome) ==
    CASE outcome = "response" ->
            [returns |-> TRUE, logged |-> <<"Message posted successfully">>]
      [] outcome = "HTTPError" ->
            [returns |-> TRUE, logged |-> <<"Request failed">>]
      [] outcome = "URLError" ->
            [returns |-> TRUE, logged |-> <<"Server connection failed">>]
      [] outcome = "other" ->
            [returns |-> FALSE, logged |-> <<>>, exc |-> OtherHttpException]

(***************************************************************************)
(* lambda_handler (src lines 965-1001) as a state machine                  *)
(***************************************************************************)
VARIABLES
    event,          \* the handler's argument
    now,            \* what the clock reads when the renderer of the branch
                    \* asks it
    pc,             \* where the invocation is
    message,        \* the locals of lambda_handler, Unset until assigned
    message_json,
    sns_record,
    kind,           \* the branch of the if/elif chain that was taken
    source,         \* the argument of that branch's renderer
    teams_message,  \* the card of the renderer, None until it is made
    error_message,  \* the error card of the except block, Unset until made
    handling,       \* TRUE inside the except block
    exc,            \* the exception the except block caught
    faultAt,        \* the pc at which that exception was raised
    posts,          \* the POSTs attempted: body and outcome, in order
    logged,         \* the lines logged, in order
    propagated,     \* the exception that left lambda_handler
    trace,          \* the values pc has had, in order
    mem,            \* the store of the specifications further down: the value
                    \* of every variable, by namespace (0 the module, i the
                    \* frame of call i)
    wire            \* overlapping invocations: the POSTs attempted, in order

vars == <<event, now, pc, message, message_json, sns_record, kind, source,
          teams_message, error_message, handling, exc, faultAt, posts, logged, propagated, trace,
          mem, wire>>

Unset == [t |-> "unset"]
NoExc == [type |-> "", msg |-> ""]

Init ==
    /\ event \in Events
    /\ now \in Clock
    /\ pc = "Start"
    /\ message = Unset
    /\ message_json = Unset
    /\ sns_record = Unset
    /\ kind = "none"
    /\ source = Unset
    /\ teams_message = NoneV
    /\ error_message = Unset
    /\ handling = FALSE
    /\ exc = NoExc
    /\ faultAt = "none"
    /\ posts = <<>>
    /\ logged = <<>>
    /\ propagated = NoExc
    /\ trace = <<"Start">>
    /\ mem = <<>>
    /\ wire = <<>>

Goto(next) ==
    /\ pc' = next
    /\ trace' = Append(trace, next)
    /\ UNCHANGED <<mem, wire>>

\* except Exception as e: (src lines 997-998)
Catch(e) ==
    /\ exc' = e
    /\ faultAt' = pc
    /\ handling' = TRUE
    /\ Goto("RenderError")

\* logger.info("Event: %s", json.dumps(event)) (src line 966)
LogEvent ==
    /\ pc = "Start"
    /\ logged' = Append(logged, "Event")
    /\ Goto("Extracting")
    /\ UNCHANGED <<event, now, message, message_json, sns_record, kind, source,
                   teams_message, error_message, handling, exc, faultAt, posts,
                   propagated>>

\* src lines 969-971.  The three assignments are made in turn: when
\* json.loads raises at src line 970, message is bound already and the other
\* two locals are not
Extract ==
    /\ pc = "Extracting"
    /\ \E got \in {ExtractMessage(event)} :
           IF ~got.ok
           THEN /\ Catch(got.exc)
                /\ logged' = Append(logged, "Error processing event: " \o got.exc.msg)
                /\ UNCHANGED <<message, message_json, sns_record>>
           ELSE /\ message' = got.val.message
                /\ \E parsed \in {json_loads(got.val.message)} :
                       IF parsed.ok
                       THEN /\ message_json' = parsed.val
                            /\ sns_record' = got.val.sns_record
                            /\ Goto("Classify")
                            /\ UNCHANGED <<handling, exc, faultAt, logged>>
                       ELSE /\ Catch(parsed.exc)
                            /\ logged' = Append(logged, "Error processing event: "
                                                            \o parsed.exc.msg)
                            /\ UNCHANGED <<message_json, sns_record>>
    /\ UNCHANGED <<event, now, kind, source, teams_message, error_message, posts,
                   propagated>>

\* the tests of the if/elif chain and the argument of the call in the branch
\* taken (src lines 975-990)
Classify ==
    /\ pc = "Classify"
    /\ \E sel \in {SelectRenderer(message, message_json, sns_record)} :
           /\ kind' = sel.kind
           /\ IF sel.source.ok
              THEN /\ source' = sel.source.val
                   /\ logged' = logged \o sel.logged
                   /\ Goto("Render")
                   /\ UNCHANGED <<handling, exc, faultAt>>
              ELSE /\ Catch(sel.source.exc)
                   /\ logged' = logged \o sel.logged
                         \o <<"Error processing event: " \o sel.source.exc.msg>>
                   /\ UNCHANGED source
    /\ UNCHANGED <<event, now, message, message_json, sns_record, teams_message,
                   error_message, posts, propagated>>

\* the line a renderer logs on entry, before it builds the card: the
\* cost-anomaly renderer its name (src line 293), the CloudTrail renderer its
\* argument as JSON text (src line 515)
RenderLog(k, src) ==
    CASE k = "CostAnomaly" -> <<"Processing AWS Cost Anomaly message">>
      [] k = "AuditEvent" -> <<"message_json_detail: " \o json_dumps(src)>>
      [] OTHER -> <<>>

\* the renderer call of the branch, then `if teams_message:` (src lines 978-995)
Render ==
    /\ pc = "Render"
    /\ \E r \in {RenderKind(kind, source, now)} :
           IF r.ok
           THEN /\ teams_message' = r.val
                /\ IF Truthy(r.val)
                   THEN /\ Goto("Deliver")
                        /\ logged' = logged \o RenderLog(kind, source)
                   ELSE /\ Goto("Done")
                        /\ logged' = logged \o RenderLog(kind, source)
                                \o <<"Failed to create Teams message">>
                /\ UNCHANGED <<handling, exc, faultAt>>
           ELSE /\ Catch(r.exc)
                /\ logged' = logged \o RenderLog(kind, source)
                                \o <<"Error processing event: " \o r.exc.msg>>
                /\ UNCHANGED teams_message
    /\ UNCHANGED <<event, now, message, message_json, sns_record, kind, source,
                   error_message, posts, propagated>>

\* send_teams_message(teams_message) in the try block (src line 993), or
\* send_teams_message(error_message) in the except block (src line 1001)
Deliver ==
    /\ pc = "Deliver"
    /\ \E outcome \in HttpOutcomes :
        /\ posts' = Append(posts, [body |-> to_dict(IF handling THEN error_message
                                                    ELSE teams_message),
                                   outcome |-> outcome])
        /\ IF outcome = "hang"
           THEN /\ Goto("Blocked")
                /\ UNCHANGED <<handling, exc, faultAt, logged, propagated>>
           ELSE \E sent \in {send_teams_message(outcome)} :
                    IF sent.returns
                    THEN /\ Goto("Done")
                         /\ logged' = logged \o sent.logged
                         /\ UNCHANGED <<handling, exc, faultAt, propagated>>
                    ELSE IF ~handling
                    THEN /\ Catch(sent.exc)
                         /\ logged' = Append(logged, "Error processing event: "
                                                      \o sent.exc.msg)
                         /\ UNCHANGED propagated
                    ELSE /\ propagated' = sent.exc
                         /\ Goto("Raised")
                         /\ UNCHANGED <<handling, exc, faultAt, logged>>
    /\ UNCHANGED <<event, now, message, message_json, sns_record, kind, source,
                   teams_message, error_message>>

\* the error card rendered with a fixed text in place of str(e)
RenderError_FixedText ==
    /\ pc = "RenderError"
    /\ \E t \in Clock : error_message' = create_error_message("An error occurred", t)
    /\ Goto("Deliver")
    /\ UNCHANGED <<event, now, message, message_json, sns_record, kind, source,
                   teams_message, handling, exc, faultAt, posts, logged, propagated>>

\* error_message = create_error_message(str(e)) (src line 1000).  The card is
\* bound to a local of its own, teams_message keeps what it held, and
\* create_error_message reads the clock itself (src line 1053): the reading
\* is a new one, equal to an earlier reading of the call or not
RenderError ==
    /\ pc = "RenderError"
    /\ \E t \in Clock : error_message' = create_error_message(exc.msg, t)
    /\ Goto("Deliver")
    /\ UNCHANGED <<event, now, message, message_json, sns_record, kind, source,
                   teams_message, handling, exc, faultAt, posts, logged, propagated>>

Next == LogEvent \/ Extract \/ Classify \/ Render \/ Deliver \/ RenderError

Spec == Init /\ [][Next]_vars

(***************************************************************************)
(* Properties                                                              *)
(***************************************************************************)
\* the if/elif chain has been evaluated on a payload that was parsed
Classified == pc \notin {"Start", "Extracting", "Classify"} /\ message_json # Unset

HasKey(p, key) == p.t = "dict" /\ key \in DOMAIN p.d

Rule1(p) == HasKey(p, "AlarmName")
Rule2(p) ==
    /\ HasKey(p, "detail-type")
    /\ p.d["detail-type"] = StrV("AWS Service Event via CloudTrail")
Rule3(p) == \A key \in {"accountId", "anomalyId", "monitorArn", "impact"} : HasKey(p, key)

\* the card the renderer of kind k makes of field source src
CardOf(k, src) ==
    CASE k = "Alarm" -> create_cloudwatch_alarm_message(src, now)
      [] k = "AuditEvent" -> create_cloudtrail_message(src)
      [] k = "CostAnomaly" -> create_cost_anomaly_message(src)
      [] k = "Generic" -> create_generic_message(src, now)

\* the first POST of an invocation that has not faulted carries the card of
\* kind k made of src
PostsCardOf(k, src) ==
    (posts # <<>> /\ faultAt \in {"none", "Deliver"}) =>
        \E card \in {CardOf(k, src)} : card.ok /\ posts[1].body = to_dict(card.val)

\* the text of the error-text block of a serialized error card
ErrorTextOf(body) ==
    body.d["attachments"].l[1].d["content"].d["body"].l[2].d["items"].l[2].d["text"]

\* the header text of a serialized card
TitleOf(body) ==
    body.d["attachments"].l[1].d["content"].d["body"].l[1].d["items"].l[1].d["text"].s

IsErrorCard(body) == TitleOf(body) = EMOJI_ERROR \o " " \o EMOJI_WARNING \o " Lambda Function Error"

\* C1: no exception ever leaves lambda_handler, whatever the event and
\* whatever the outcome of each outbound call.
C1_NoExceptionPropagates == propagated = NoExc /\ pc # "Raised"

\* C2: every invocation attempts exactly one POST: never two (a classified
\* card and an error card), and one by the time the handler has ended.
C2_ExactlyOnePost ==
    /\ Len(posts) <= 1
    /\ pc \in {"Done", "Raised"} => Len(posts) = 1

\* C3: on a payload that is a JSON object the renderer and its field source
\* are those of the first matching rule: AlarmName present -> Alarm of the
\* payload or Generic of the envelope; else the CloudTrail detail-type ->
\* AuditEvent of payload['detail']; else the four cost keys -> CostAnomaly of
\* the payload; else Generic of the envelope.  The card posted on the normal
\* path is the card of that renderer and source.
C3_FirstMatchingRule ==
    (Classified /\ message_json.t = "dict") =>
        IF Rule1(message_json)
        THEN \/ kind = "Alarm" /\ source = message_json
                /\ (faultAt # "Render" => PostsCardOf("Alarm", message_json))
             \/ kind = "Generic" /\ source = sns_record
                /\ PostsCardOf("Generic", sns_record)
        ELSE IF Rule2(message_json)
        THEN /\ kind = "AuditEvent"
             /\ IF HasKey(message_json, "detail")
                THEN /\ source = message_json.d["detail"]
                     /\ (faultAt # "Render" =>
                            PostsCardOf("AuditEvent", message_json.d["detail"]))
                ELSE faultAt = "Classify"
        ELSE IF Rule3(message_json)
        THEN /\ kind = "CostAnomaly" /\ source = message_json
             /\ (faultAt # "Render" => PostsCardOf("CostAnomaly", message_json))
        ELSE /\ kind = "Generic" /\ source = sns_record
             /\ PostsCardOf("Generic", sns_record)

\* a payload satisfying rules 2 and 3 (and not 1) has been posted as AuditEvent
C3_Witness ==
    /\ pc = "Done" /\ faultAt = "none" /\ Len(posts) = 1
    /\ message_json.t = "dict"
    /\ ~Rule1(message_json) /\ Rule2(message_json) /\ Rule3(message_json)
    /\ kind = "AuditEvent"
    /\ TitleOf(posts[1].body) = EMOJI_CLOUDTRAIL \o " " \o EMOJI_SUCCESS \o " CloudTrail Event"

\* the branch and the card of a payload with key AlarmName: with a truthy
\* AlarmName in the re-parsed text the Alarm branch, whose renderer is given
\* the payload, returns a card and has it posted; with a falsy AlarmName (or
\* a failed re-parse) the same of the Generic branch and the envelope
AlarmOrGeneric ==
    \E again \in {json_loads(message)} :
        IF again.ok /\ Truthy(again.val.d["AlarmName"])
        THEN /\ kind = "Alarm" /\ source = message_json
             /\ faultAt \notin {"Classify", "Render"}
             /\ PostsCardOf("Alarm", message_json)
        ELSE /\ kind = "Generic" /\ source = sns_record
             /\ faultAt \notin {"Classify", "Render"}
             /\ PostsCardOf("Generic", sns_record)

\* C4: a payload with key AlarmName whose text re-parses with a truthy
\* AlarmName makes the invocation render the Alarm card, which is the one
\* posted; with a falsy AlarmName (or a failed re-parse) the Generic card of
\* the envelope is rendered and posted.
C4_AlarmOrGeneric ==
    (Classified /\ Rule1(message_json)) => AlarmOrGeneric

\* the same, for the payloads whose NewStateValue is absent or a string
C4_AlarmOrGenericOfStrings ==
    (/\ Classified /\ Rule1(message_json)
     /\ HasKey(message_json, "NewStateValue") =>
            message_json.d["NewStateValue"].t = "str")
        => AlarmOrGeneric

\* both halves have happened on payloads whose NewStateValue is no fault: a
\* truthy AlarmName has been posted as the Alarm card
C4_AlarmPosted ==
    /\ pc = "Done" /\ faultAt = "none" /\ Len(posts) = 1
    /\ Rule1(message_json) /\ Truthy(message_json.d["AlarmName"])
    /\ kind = "Alarm"
    /\ posts[1].body = to_dict(create_cloudwatch_alarm_message(message_json, now).val)

\* and a falsy AlarmName has been posted as the Generic card
C4_GenericPosted ==
    /\ pc = "Done" /\ faultAt = "none" /\ Len(posts) = 1
    /\ Rule1(message_json) /\ ~Truthy(message_json.d["AlarmName"])
    /\ kind = "Generic"
    /\ posts[1].body = to_dict(create_generic_message(sns_record, now).val)

\* `'AlarmName' in payload` is true
AlarmNameIn(p) == \E r \in {PyIn("AlarmName", p)} : r.ok /\ r.val

\* the payload is alarm JSON: an object with a truthy AlarmName
TrueAlarm(p) == Rule1(p) /\ Truthy(p.d["AlarmName"])

\* C5: when 'AlarmName' in payload is true and the payload is not true alarm
\* JSON (a JSON string containing the text included), the handler takes the
\* Generic branch and never the error-card path.
C5_FallbackAbsorbed ==
    (Classified /\ AlarmNameIn(message_json) /\ ~TrueAlarm(message_json)) =>
        /\ kind = "Generic"
        /\ faultAt \notin {"Classify", "Render"}
        /\ \A i \in 1..Len(posts) : ~IsErrorCard(posts[i].body) \/ faultAt = "Deliver"

\* the first exception of extraction, classification and rendering on the
\* event, computed from the event alone (NoExc when there is none)
FaultOf(ev) ==
    Bind(ExtractPayload(ev), LAMBDA r :
        IF ~r.ok THEN r.exc
        ELSE Bind(SelectRenderer(r.val.message, r.val.message_json, r.val.sns_record),
                  LAMBDA sel :
            IF ~sel.source.ok THEN sel.source.exc
            ELSE Bind(CardOf(sel.kind, sel.source.val), LAMBDA card :
                IF card.ok THEN NoExc ELSE card.exc)))

\* C6: a fault of extraction, classification or rendering is caught: the
\* error card whose error-text block is exactly str(exception) is rendered,
\* its delivery is attempted, and no card of the original kind is posted.
C6_FaultYieldsErrorCard ==
    faultAt \in {"Extracting", "Classify", "Render"} =>
        /\ handling /\ exc # NoExc /\ exc = FaultOf(event)
        /\ pc \in {"RenderError", "Deliver", "Done", "Blocked", "Raised"}
        /\ pc # "RenderError" =>
                \E t \in Clock : error_message = create_error_message(exc.msg, t)
        /\ pc \in {"Done", "Blocked", "Raised"} => Len(posts) = 1
        /\ \A i \in 1..Len(posts) :
                /\ IsErrorCard(posts[i].body)
                /\ ErrorTextOf(posts[i].body) = StrV(exc.msg)
                /\ posts[i].body = to_dict(error_message)

\* the alarm renderer has raised on a NewStateValue that is no string, and the
\* error card with that exception's text has been posted
C6_Witness ==
    /\ pc = "Done" /\ faultAt = "Render" /\ kind = "Alarm" /\ Len(posts) = 1
    /\ exc.msg = "'int' object has no attribute 'lower'"
    /\ ErrorTextOf(posts[1].body) = StrV("'int' object has no attribute 'lower'")

\* C7: send_teams_message returns normally after every failure of the
\* outbound call, so no delivery attempt is followed by the except block or
\* by an exception leaving the handler; after an HTTP-status or connection
\* failure on the normal path the handler ends with that one POST.
C7_SendNeverRaises ==
    /\ faultAt # "Deliver"
    /\ \A i \in 1..Len(posts) :
            posts[i].outcome \in {"HTTPError", "URLError", "other"} =>
                /\ pc = "Done"
                /\ Len(posts) = i
                /\ (i = 1 /\ faultAt = "none") => ~handling

\* the steps the state machine of the entry point allows
StepAllowed(from, to) ==
    \/ <<from, to>> \in { <<"Start", "Extracting">>, <<"Extracting", "Classify">>,
                          <<"Classify", "Render">>, <<"Render", "Deliver">>,
                          <<"Deliver", "Done">>, <<"RenderError", "Deliver">> }
    \/ from \in {"Extracting", "Classify", "Render", "Deliver"} /\ to = "RenderError"
    \/ from = "Deliver" /\ to = "Blocked"

\* the states pc has had form a path of the state machine with at most one
\* catch-all transition, taken on a fault
PathAllowed ==
    /\ trace[1] = "Start" /\ trace[Len(trace)] = pc
    /\ \A i \in 1..(Len(trace) - 1) : StepAllowed(trace[i], trace[i + 1])
    /\ Cardinality({i \in 1..Len(trace) : trace[i] = "RenderError"}) <= 1
    /\ ("RenderError" \in {trace[i] : i \in 1..Len(trace)}) <=> (faultAt # "none")

\* C8: every invocation follows Start -> Extracting -> Classify -> Render ->
\* Deliver -> Done or leaves it once, on a fault, to RenderError -> Deliver ->
\* Done; an invocation that has no step left is at Done, unless its HTTP call
\* has not returned.
C8_StateSequence ==
    /\ PathAllowed
    /\ pc \notin {"Start", "Extracting", "Classify", "Render", "Deliver", "RenderError"}
            => pc \in {"Done", "Blocked"}

\* v holds no null, at any depth
RECURSIVE NullFree(_)
NullFree(v) ==
    CASE v.t = "None" -> FALSE
      [] v.t = "list" -> \A i \in 1..Len(v.l) : NullFree(v.l[i])
      [] v.t = "dict" -> \A key \in DOMAIN v.d : NullFree(v.d[key])
      [] OTHER -> TRUE

\* a serialized envelope holds no null but its attachments' contentUrl
NoNullButContentUrl(body) ==
    /\ \A key \in DOMAIN body.d \ {"attachments"} : NullFree(body.d[key])
    /\ \A i \in 1..Len(body.d["attachments"].l) :
         \A key \in DOMAIN body.d["attachments"].l[i].d \ {"contentUrl"} :
            NullFree(body.d["attachments"].l[i].d[key])

\* C9: no body handed to delivery has a key whose value is null, the
\* attachment's contentUrl excepted.
C9_NoNullValues == \A i \in 1..Len(posts) : NoNullButContentUrl(posts[i].body)

\* no key of v, at any depth, has an empty string, list or mapping as value
RECURSIVE NoEmptyValue(_)
NoEmptyValue(v) ==
    CASE v.t = "list" -> \A i \in 1..Len(v.l) : NoEmptyValue(v.l[i])
      [] v.t = "dict" ->
            \A key \in DOMAIN v.d :
                /\ v.d[key] \notin {StrV(""), EmptyList, EmptyDict}
                /\ NoEmptyValue(v.d[key])
      [] OTHER -> TRUE

\* C10: no serialized node of a body handed to delivery carries a key whose
\* value is an empty string, an empty list or an empty mapping.
C10_NoEmptyValues == \A i \in 1..Len(posts) : NoEmptyValue(posts[i].body)

\* body is the documented wire format: type 'message', one attachment with
\* the adaptive-card content type, a null contentUrl and a content that has
\* the schema URL, type, version, a non-empty body and, at most, actions
WireFormat(body) ==
    /\ body.t = "dict" /\ body.k = <<"type", "attachments">>
    /\ body.d["type"] = StrV("message")
    /\ body.d["attachments"].t = "list" /\ Len(body.d["attachments"].l) = 1
    /\ \E att \in {body.d["attachments"].l[1]} :
        /\ att.t = "dict" /\ att.k = <<"contentType", "contentUrl", "content">>
        /\ att.d["contentType"] = StrV("application/vnd.microsoft.card.adaptive")
        /\ att.d["contentUrl"] = NoneV
        /\ \E content \in {att.d["content"]} :
            /\ content.t = "dict"
            /\ content.k \in { <<"$schema", "type", "version", "body">>,
                               <<"$schema", "type", "version", "body", "actions">> }
            /\ content.d["$schema"] = StrV("http://adaptivecards.io/schemas/adaptive-card.json")
            /\ content.d["type"] = StrV("AdaptiveCard")
            /\ content.d["version"] = StrV("1.2")
            /\ content.d["body"].t = "list" /\ content.d["body"].l # <<>>
            /\ \A i \in 1..Len(content.d["body"].l) : content.d["body"].l[i].t = "dict"

\* C11: every body handed to delivery, on the normal path and on the error
\* path, is an envelope of the documented wire format.
C11_WireFormat == \A i \in 1..Len(posts) : WireFormat(posts[i].body)

\* a classified card with actions and then the error card have been posted
C11_Witness ==
    /\ Len(posts) = 2
    /\ ~IsErrorCard(posts[1].body) /\ IsErrorCard(posts[2].body)
    /\ "actions" \in DOMAIN posts[1].body.d["attachments"].l[1].d["content"].d

\* the blocks of the content of a serialized envelope
BlocksOf(body) == body.d["attachments"].l[1].d["content"].d["body"].l

\* the last block of the card is the container that holds the root-cause table
HasTable(body) ==
    \E last \in {BlocksOf(body)[Len(BlocksOf(body))]} :
        /\ "items" \in DOMAIN last.d
        /\ Len(last.d["items"].l) = 2
        /\ last.d["items"].l[2].d["type"] = StrV("Table")

\* the serialized root-cause table, and the text of cell j of one of its rows
TableOf(body) == BlocksOf(body)[Len(BlocksOf(body))].d["items"].l[2]
CellText(row, j) == row.d["cells"].l[j].d["items"].l[1].d["text"]

\* the rows of the table below its header row
DataRows(body) == Tail(TableOf(body).d["rows"].l)

\* a cost-anomaly card has been rendered from the payload and posted first
CostCardPosted ==
    kind = "CostAnomaly" /\ faultAt \in {"none", "Deliver"} /\ posts # <<>>

\* rootCauses of the payload, [] when absent
RootCausesOf(p) == IF HasKey(p, "rootCauses") THEN p.d["rootCauses"].l ELSE <<>>

Min(a, b) == IF a < b THEN a ELSE b

\* the service name of a root cause as the table shows it
ShownService(cause) ==
    IF ~HasKey(cause, "service") THEN "Unknown Service"
    ELSE IF Len(cause.d["service"].s) > 35
    THEN SubSeq(cause.d["service"].s, 1, 32) \o "..."
    ELSE cause.d["service"].s

\* C12: the root-cause table of a cost-anomaly card has at most 5 rows below
\* its header, whatever the length of rootCauses; a service name longer than
\* 35 characters is shown as its first 32 characters and '...', a name of 35
\* characters or fewer unchanged.
C12_RootCauseRows ==
    (CostCardPosted /\ HasTable(posts[1].body)) =>
        /\ Len(DataRows(posts[1].body)) <= 5
        /\ Len(DataRows(posts[1].body)) = Min(5, Len(RootCausesOf(message_json)))
        /\ \A i \in 1..Len(DataRows(posts[1].body)) :
              CellText(DataRows(posts[1].body)[i], 1)
                 = StrV(ShownService(RootCausesOf(message_json)[i]))

\* a payload of seven root causes, among them names of 35 and of 36
\* characters, has been posted with five rows
C12_Witness ==
    /\ CostCardPosted /\ HasTable(posts[1].body)
    /\ Len(RootCausesOf(message_json)) = 7
    /\ Len(DataRows(posts[1].body)) = 5
    /\ \E i, j \in 1..5 :
        /\ Len(RootCausesOf(message_json)[i].d["service"].s) = 35
        /\ CellText(DataRows(posts[1].body)[i], 1) = RootCausesOf(message_json)[i].d["service"]
        /\ Len(RootCausesOf(message_json)[j].d["service"].s) = 36
        /\ Len(CellText(DataRows(posts[1].body)[j], 1).s) = 35

\* NewStateValue of the payload equals 'alarm' when case is ignored
Firing(p) ==
    /\ HasKey(p, "NewStateValue")
    /\ p.d["NewStateValue"].t = "str"
    /\ Lower(p.d["NewStateValue"]).val = StrV("alarm")

\* the value column of the label/value layout of a serialized alarm card
AlarmValues(body) == BlocksOf(body)[2].d["items"].l[1].d["columns"].l[2].d["items"].l

\* the serialized card carries the styling and title of the branch chosen by
\* firing, for the alarm called name
AlarmStyled(body, firing, name) ==
    /\ BlocksOf(body)[1].d["style"] = StrV(IF firing THEN "attention" ELSE "good")
    /\ BlocksOf(body)[1].d["items"].l[1].d["color"]
          = StrV(IF firing THEN "Attention" ELSE "Good")
    /\ AlarmValues(body)[1].d["color"] = StrV(IF firing THEN "attention" ELSE "good")
    /\ AlarmValues(body)[3].d["color"] = StrV(IF firing THEN "attention" ELSE "good")
    /\ TitleOf(body) =
          IF firing
          THEN EMOJI_ERROR \o " " \o EMOJI_WARNING \o " CloudWatch Alarm - " \o name
          ELSE EMOJI_SUCCESS \o " " \o EMOJI_INFO \o " CloudWatch Alarm Resolved - " \o name

\* C13: the card posted for a payload classified as an alarm is styled by
\* NewStateValue alone: 'attention' styling and the title 'CloudWatch Alarm -
\* <AlarmName>' when it equals 'alarm' ignoring case, 'good' styling and the
\* title 'CloudWatch Alarm Resolved - <AlarmName>' for every other value and
\* for a missing one.
C13_AlarmStyling ==
    (kind = "Alarm" /\ posts # <<>>) =>
        AlarmStyled(posts[1].body, Firing(source), PyStr(source.d["AlarmName"]))

\* the same, for payloads whose NewStateValue is a string or is missing
C13_AlarmStylingOfStrings ==
    (kind = "Alarm" /\ posts # <<>>
        /\ (HasKey(source, "NewStateValue") => source.d["NewStateValue"].t = "str")) =>
        AlarmStyled(posts[1].body, Firing(source), PyStr(source.d["AlarmName"]))

\* the text of a serialized text block, None when the block carries none
TextOf(block) == IF "text" \in DOMAIN block.d THEN block.d["text"] ELSE NoneV

\* the Error Details block of a serialized audit-event card
ErrorDetailsOf(body) == BlocksOf(body)[3]

\* an audit-event card has been asked of a detail that is a mapping, and the
\* first POST has been made
AuditCardPosted == kind = "AuditEvent" /\ source.t = "dict" /\ posts # <<>>

\* C14: for every detail mapping the audit-event card has a 'good' header and
\* an 'attention' Error Details block whose text is errorMessage when the key
\* is present and 'No error message provided' when it is absent; the header
\* is the same with and without an error message.
C14_ErrorDetails ==
    AuditCardPosted =>
        /\ BlocksOf(posts[1].body)[1].d["style"] = StrV("good")
        /\ BlocksOf(posts[1].body)[1].d["items"].l[1].d["color"] = StrV("Good")
        /\ TitleOf(posts[1].body) = EMOJI_CLOUDTRAIL \o " " \o EMOJI_SUCCESS \o " CloudTrail Event"
        /\ ErrorDetailsOf(posts[1].body).d["style"] = StrV("attention")
        /\ ErrorDetailsOf(posts[1].body).d["items"].l[1].d["text"]
              = StrV(EMOJI_ERROR \o " Error Details")
        /\ ErrorDetailsOf(posts[1].body).d["items"].l[2].d["items"].l[1].d["color"]
              = StrV("attention")
        /\ TextOf(ErrorDetailsOf(posts[1].body).d["items"].l[2].d["items"].l[1])
              = IF HasKey(source, "errorMessage") THEN source.d["errorMessage"]
                ELSE StrV("No error message provided")

\* a card has been posted for a detail whose errorMessage is present and empty
C14_Witness ==
    /\ AuditCardPosted
    /\ HasKey(source, "errorMessage") /\ source.d["errorMessage"] = StrV("")
    /\ BlocksOf(posts[1].body)[1].d["style"] = StrV("good")

\* the fields each renderer reads from its field source (src lines 660-664,
\* 517-521, 296-317 and 806-810)
FieldsOf(k) ==
    CASE k = "Alarm" -> {"AlarmName", "OldStateValue", "NewStateValue",
                         "NewStateReason", "StateChangeTime"}
      [] k = "AuditEvent" -> {"eventName", "eventType", "eventID", "eventTime",
                              "errorMessage"}
      [] k = "CostAnomaly" -> {"accountName", "monitorName", "anomalyStartDate",
                               "anomalyEndDate", "impact", "anomalyScore",
                               "rootCauses", "anomalyDetailsLink"}
      [] k = "Generic" -> {"Subject", "Message", "Timestamp", "TopicArn", "MessageId"}

\* the fields whose default in the code is the time of the call
ClockFields == {"StateChangeTime", "Timestamp"}

\* the literal the code substitutes for a missing field
PlaceholderOf(f) ==
    CASE f = "AlarmName" -> StrV("Unknown Alarm")
      [] f \in {"OldStateValue", "NewStateValue"} -> StrV("Unknown")
      [] f = "NewStateReason" -> StrV("No reason provided")
      [] f = "eventName" -> StrV("Unknown Event")
      [] f = "eventType" -> StrV("Unknown Type")
      [] f = "eventID" -> StrV("Unknown ID")
      [] f = "eventTime" -> StrV("Unknown Time")
      [] f = "errorMessage" -> StrV("No error message provided")
      [] f = "accountName" -> StrV("Unknown Account")
      [] f = "monitorName" -> StrV("Unknown Monitor")
      [] f \in {"anomalyStartDate", "anomalyEndDate", "anomalyDetailsLink"} -> StrV("")
      [] f \in {"impact", "anomalyScore"} -> EmptyDict
      [] f = "rootCauses" -> EmptyList
      [] f = "Subject" -> StrV("Unknown Subject")
      [] f = "Message" -> StrV("No message body")
      [] f = "TopicArn" -> StrV("Unknown Topic")
      [] f = "MessageId" -> StrV("Unknown Message ID")

\* the pairs of dict dv from its i-th key on, those of the keys in S left out
RECURSIVE PairsWithout(_, _, _)
PairsWithout(dv, S, i) ==
    IF i > Len(dv.k) THEN <<>>
    ELSE (IF dv.k[i] \in S THEN <<>> ELSE << <<dv.k[i], dv.d[dv.k[i]]>> >>)
            \o PairsWithout(dv, S, i + 1)

\* the field source with the fields of S missing
Without(dv, S) == DictOf(PairsWithout(dv, S, 1))

\* the field source with each field of S holding the literal of the code
RECURSIVE WithPlaceholders(_, _)
WithPlaceholders(dv, S) ==
    IF S = {} THEN dv
    ELSE LET f == CHOOSE x \in S : TRUE
         IN  WithPlaceholders(DictPut(dv, f, PlaceholderOf(f)), S \ {f})

\* a card has been rendered from a field source that is a mapping
Rendered ==
    /\ kind \in {"Alarm", "AuditEvent", "CostAnomaly", "Generic"}
    /\ source.t = "dict"
    /\ pc = "Deliver" /\ faultAt = "none"

\* with any set of fields missing the renderer still returns a card
C15_MissingNeverFails ==
    Rendered =>
        \A S \in SUBSET FieldsOf(kind) : RenderKind(kind, Without(source, S), now).ok

\* with any set of fields missing, but for the two whose default is the time
\* of the call, the card is the one of a source holding the literals: each
\* slot of a missing field holds its literal
C15_LiteralInSlot ==
    Rendered =>
        \A S \in SUBSET (FieldsOf(kind) \ ClockFields) :
            RenderKind(kind, Without(source, S), now)
                = RenderKind(kind, WithPlaceholders(source, S), now)

\* the card of a source without one of its fields is the same at every time
\* of call
C15_SameOnEveryInvocation ==
    Rendered =>
        \A f \in FieldsOf(kind) : \A t \in Clock :
            RenderKind(kind, Without(source, {f}), t)
                = RenderKind(kind, Without(source, {f}), now)

\* C15: whatever fields are missing from the field source, the renderer
\* returns a card, and the slot of each missing field holds a fixed literal
\* placeholder, the same on every invocation.
C15_FixedPlaceholders ==
    /\ C15_MissingNeverFails
    /\ C15_SameOnEveryInvocation
    /\ C15_LiteralInSlot

\* C16: a renderer is a function of its field source alone: the serialized
\* card made of the source is the same at every time of call.
C16_PureRenderer ==
    Rendered =>
        \A t \in Clock :
            \E r \in {RenderKind(kind, source, t)} :
                r.ok /\ to_dict(r.val) = to_dict(teams_message)

\* the same, for the field sources that carry every field whose default is
\* the time of the call
C16_PureRendererOfTimed ==
    (Rendered /\ \A f \in ClockFields \cap FieldsOf(kind) : HasKey(source, f)) =>
        \A t \in Clock :
            \E r \in {RenderKind(kind, source, t)} :
                r.ok /\ to_dict(r.val) = to_dict(teams_message)

\* the event with nothing but its first record, when it has one
FirstRecordOnly(ev) ==
    IF /\ HasKey(ev, "Records")
       /\ ev.d["Records"].t = "list"
       /\ ev.d["Records"].l # <<>>
    THEN DictOf(<< <<"Records", ListV(<<ev.d["Records"].l[1]>>)>> >>)
    ELSE ev

\* the branch an invocation on ev takes, "none" when it takes none
KindOf(ev) ==
    Bind(ExtractPayload(ev), LAMBDA r :
        IF ~r.ok THEN "none"
        ELSE SelectRenderer(r.val.message, r.val.message_json, r.val.sns_record).kind)

\* what an invocation on ev comes to before its first POST, computed from ev
\* and from the reading t of the clock in the renderer alone: Ok of the card
\* of the branch taken, or the first exception
FirstOutcomeOf(ev, t) ==
    Bind(ExtractPayload(ev), LAMBDA r :
        IF ~r.ok THEN r
        ELSE Bind(SelectRenderer(r.val.message, r.val.message_json, r.val.sns_record),
                  LAMBDA sel :
            IF ~sel.source.ok THEN sel.source
            ELSE RenderKind(sel.kind, sel.source.val, t)))

\* body is the first POST after the outcome first: the card serialized, or
\* the error card of the exception with some reading of the clock
IsFirstCard(body, first) ==
    IF first.ok THEN body = to_dict(first.val)
    ELSE \E u \in Clock : body = to_dict(create_error_message(first.exc.msg, u))

\* the event carries more than its first record
HasMore(ev) == ev # FirstRecordOnly(ev)

\* the first POST carries what the event cut down to its first record comes
\* to, and no POST is made for a record after the first: every later POST
\* carries that card again or the error card of the exception being handled
C17_OnlyFirstRecordPosts ==
    posts # <<>> =>
        \E first \in {FirstOutcomeOf(FirstRecordOnly(event), now)} :
            /\ IsFirstCard(posts[1].body, first)
            /\ \A i \in 2..Len(posts) :
                \/ IsFirstCard(posts[i].body, first)
                \/ /\ handling /\ posts[i].body = to_dict(error_message)
                   /\ \E u \in Clock : error_message = create_error_message(exc.msg, u)

\* C17: the branch taken and the card posted are those of the event cut down
\* to its first record: the records that follow it and the other keys of the
\* event change neither, and no POST is made for a later record.
C17_FirstRecordOnly ==
    /\ Classified => kind = KindOf(FirstRecordOnly(event))
    /\ C17_OnlyFirstRecordPosts

\* the card of a cost anomaly has been posted for an event that carries a
\* second record, an alarm, and top-level keys that name another alarm
C17_Witness ==
    /\ pc = "Done" /\ kind = "CostAnomaly" /\ faultAt = "none" /\ Len(posts) = 1
    /\ HasKey(event, "AlarmName")
    /\ Len(event.d["Records"].l) > 1
    /\ HasMore(event)

(***************************************************************************)
(* Overlapping invocations.  Two calls of lambda_handler run in one        *)
(* process, their steps interleaved in any order.  mem holds every         *)
(* variable there is: the module's globals in namespace 0 (HOOK_URL, set   *)
(* when the module is imported, src line 10) and the locals of invocation  *)
(* i in namespace i.  A step of invocation i is the step of the same name  *)
(* above, reading and assigning its variables through Load and Store.  The *)
(* records the logger writes are output no step reads; they are left out.  *)
(***************************************************************************)
Invocations == {1, 2}

\* TEAMS_WEBHOOK_URL in the environment of the process
HookUrls == {"https://hooks.example/a", "https://hooks.example/b"}

\* the messages of the events that overlap: a cost anomaly, an alarm whose
\* card shows the time of the call, an alarm whose renderer raises after it
\* has read the clock, an audit event without detail, and a text that is no
\* JSON
OverlapMessages ==
    { "{" \o CostKeys \o "{},\"accountName\":null}",
      "{\"AlarmName\":\"disk\"}",
      "{\"AlarmName\":\"disk\",\"NewStateValue\":null}",
      "{" \o CloudTrailType \o "}",
      "not json" }

OverlapEvents ==
    { EventOf(DictOf(<< <<"Message", StrV(text)>> >>), 0, <<>>) :
        text \in OverlapMessages }

\* a global of the module
Global(name) == <<0, name>>

\* the card about to be sent kept in a global of the module
Local_SharedCard(i, name) ==
    IF name = "teams_message" THEN <<0, name>> ELSE <<i, name>>

\* a local of the frame of invocation i
Local(i, name) == <<i, name>>

Load(i, name) == mem[Local(i, name)]

\* the cells of the locals named in the record locals, with their values
Frame(i, locals) ==
    [c \in {Local(i, n) : n \in DOMAIN locals} |->
        locals[CHOOSE n \in DOMAIN locals : Local(i, n) = c]]

\* the assignments name = value of the record locals, in the frame of i
Store(i, locals) == mem' = Frame(i, locals) @@ mem

\* the variables of the single invocation above stand still
Parked == <<event, now, pc, message, message_json, sns_record, kind, source,
            teams_message, error_message, handling, exc, faultAt, posts, logged,
            propagated, trace>>

ParkedInit ==
    /\ event = NoneV
    /\ now = ""
    /\ pc = "Parked"
    /\ message = Unset
    /\ message_json = Unset
    /\ sns_record = Unset
    /\ kind = "none"
    /\ source = Unset
    /\ teams_message = NoneV
    /\ error_message = Unset
    /\ handling = FALSE
    /\ exc = NoExc
    /\ faultAt = "none"
    /\ posts = <<>>
    /\ logged = <<>>
    /\ propagated = NoExc
    /\ trace = <<>>

OverlapInit ==
    /\ \E url \in HookUrls, e1 \in OverlapEvents, e2 \in OverlapEvents,
          t1 \in Clock, t2 \in Clock :
           mem = Frame(1, [event |-> e1, now |-> t1, pc |-> "Start",
                           handling |-> FALSE])
                 @@ Frame(2, [event |-> e2, now |-> t2, pc |-> "Start",
                              handling |-> FALSE])
                 @@ (Global("HOOK_URL") :> url)
    /\ wire = <<>>
    /\ ParkedInit

\* except Exception as e: (src lines 997-998)
CatchIn(i, e) == Store(i, [exc |-> e, handling |-> TRUE, pc |-> "RenderError"])

\* src line 966
LogEventIn(i) ==
    /\ Load(i, "pc") = "Start"
    /\ Store(i, [pc |-> "Extracting"])
    /\ UNCHANGED wire
    /\ UNCHANGED Parked

\* src lines 969-971: the frame holds message as soon as src line 969 has
\* run, also when json.loads then raises
ExtractIn(i) ==
    /\ Load(i, "pc") = "Extracting"
    /\ \E got \in {ExtractMessage(Load(i, "event"))} :
           IF ~got.ok
           THEN CatchIn(i, got.exc)
           ELSE \E parsed \in {json_loads(got.val.message)} :
                    IF parsed.ok
                    THEN Store(i, [message |-> got.val.message,
                                   message_json |-> parsed.val,
                                   sns_record |-> got.val.sns_record,
                                   pc |-> "Classify"])
                    ELSE Store(i, [message |-> got.val.message, exc |-> parsed.exc,
                                   handling |-> TRUE, pc |-> "RenderError"])
    /\ UNCHANGED wire
    /\ UNCHANGED Parked

\* src lines 975-990
ClassifyIn(i) ==
    /\ Load(i, "pc") = "Classify"
    /\ \E sel \in {SelectRenderer(Load(i, "message"), Load(i, "message_json"),
                                  Load(i, "sns_record"))} :
           IF sel.source.ok
           THEN Store(i, [kind |-> sel.kind, source |-> sel.source.val,
                          pc |-> "Render"])
           ELSE Store(i, [kind |-> sel.kind, exc |-> sel.source.exc,
                          handling |-> TRUE, pc |-> "RenderError"])
    /\ UNCHANGED wire
    /\ UNCHANGED Parked

\* src lines 978-995
RenderIn(i) ==
    /\ Load(i, "pc") = "Render"
    /\ \E r \in {RenderKind(Load(i, "kind"), Load(i, "source"), Load(i, "now"))} :
           IF r.ok
           THEN Store(i, [teams_message |-> r.val,
                          pc |-> IF Truthy(r.val) THEN "Deliver" ELSE "Done"])
           ELSE CatchIn(i, r.exc)
    /\ UNCHANGED wire
    /\ UNCHANGED Parked

\* send_teams_message (src lines 938-952) called at src line 993 with
\* teams_message or at src line 1001 with error_message, up to the point at
\* which urlopen(req) has sent the request to the HOOK_URL of the module and
\* waits for the answer.  The other invocation runs during the wait; a
\* request that is never answered leaves the call here for ever
DeliverIn(i) ==
    /\ Load(i, "pc") = "Deliver"
    /\ wire' = Append(wire, [by |-> i,
                             url |-> mem[Global("HOOK_URL")],
                             body |-> to_dict(IF Load(i, "handling")
                                              THEN Load(i, "error_message")
                                              ELSE Load(i, "teams_message")),
                             outcome |-> "hang"])
    /\ Store(i, [pc |-> "Blocked"])
    /\ UNCHANGED Parked

\* the index in wire of the last POST of invocation i
Pending(i) == CHOOSE j \in 1..Len(wire) :
                  wire[j].by = i /\ \A l \in (j + 1)..Len(wire) : wire[l].by # i

\* urlopen(req) returns or raises, and the rest of send_teams_message and of
\* the block that called it (src lines 945-952, 997-998)
AnswerIn(i) ==
    /\ Load(i, "pc") = "Blocked"
    /\ \E outcome \in HttpOutcomes \ {"hang"} :
        /\ wire' = [wire EXCEPT ![Pending(i)].outcome = outcome]
        /\ \E sent \in {send_teams_message(outcome)} :
               IF sent.returns THEN Store(i, [pc |-> "Done"])
               ELSE IF ~Load(i, "handling") THEN CatchIn(i, sent.exc)
               ELSE Store(i, [propagated |-> sent.exc, pc |-> "Raised"])
    /\ UNCHANGED Parked

\* src line 1000: the card is a local of its own, and its clock reading is
\* the one create_error_message makes (src line 1053)
RenderErrorIn(i) ==
    /\ Load(i, "pc") = "RenderError"
    /\ \E t \in Clock :
           Store(i, [error_message |-> create_error_message(Load(i, "exc").msg, t),
                     pc |-> "Deliver"])
    /\ UNCHANGED wire
    /\ UNCHANGED Parked

OverlapNext ==
    \E i \in Invocations :
        \/ LogEventIn(i)
        \/ ExtractIn(i)
        \/ ClassifyIn(i)
        \/ RenderIn(i)
        \/ DeliverIn(i)
        \/ AnswerIn(i)
        \/ RenderErrorIn(i)

OverlapSpec == OverlapInit /\ [][OverlapNext]_vars

\* the POSTs of invocation i, in order
PostsBy(i) == SelectSeq(wire, LAMBDA p : p.by = i)

\* what an invocation posts is what it posts when it runs alone on its event:
\* the POST a step adds to the wire is, when it is the first of its
\* invocation, the card FirstOutcomeOf makes of its event and of what the
\* clock reads, and otherwise the second, made after the first POST raised,
\* and the error card of that exception
C18_CardAsAlone ==
    Len(wire') > Len(wire) =>
        \E p \in {wire'[Len(wire')]} :
        \E before \in {PostsBy(p.by)} :
            IF before = <<>>
            THEN IsFirstCard(p.body, FirstOutcomeOf(mem[<<p.by, "event">>],
                                                    mem[<<p.by, "now">>]))
            ELSE /\ Len(before) = 1
                 /\ before[1].outcome = "other"
                 /\ \E t \in Clock :
                        p.body = to_dict(create_error_message(
                                     OtherHttpException.msg, t))

\* every POST goes to the URL the module read when it was imported
C18_OneHook ==
    \A j \in 1..Len(wire) : wire[j].url = mem[<<0, "HOOK_URL">>]

\* a step assigns variables of one frame only, and none of the module
C18_OwnFrameOnly ==
    /\ DOMAIN mem \subseteq DOMAIN mem'
    /\ \E i \in Invocations :
           \A c \in DOMAIN mem' :
               (c \notin DOMAIN mem \/ mem'[c] # mem[c]) => c[1] = i

\* C18: overlapping invocations are isolated.  In every interleaving of two
\* invocations each posts the card it posts when run alone on its own event,
\* every POST goes to the one webhook URL, and no step assigns a variable
\* outside the frame of its own invocation.
C18_Isolated ==
    /\ []C18_OneHook
    /\ [][C18_CardAsAlone /\ C18_OwnFrameOnly]_vars

\* invocation 1 holds its card, not yet sent, while invocation 2 has posted a
\* different one
C18_Witness ==
    /\ mem[<<1, "pc">>] = "Deliver"
    /\ ~mem[<<1, "handling">>]
    /\ PostsBy(1) = <<>>
    /\ Len(PostsBy(2)) = 1
    /\ wire[1].body # to_dict(mem[<<1, "teams_message">>])

\* the amount of the impact mapping of a payload under key, 0 when absent
ImpactAmount(p, key) ==
    IF HasKey(p.d["impact"], key) THEN p.d["impact"].d[key] ELSE IntV(0)

ImpactKeys ==
    {"totalActualSpend", "totalExpectedSpend", "totalImpact", "totalImpactPercentage"}

\* a JSON number
Numeric(v) == v.t \in {"int", "float"}

\* a number of finite size
Finite(v) == v.t = "int" \/ (v.t = "float" /\ v.e # 0)

\* x is an optional sign, one digit or more, a point and exactly d digits
IsFixed(x, d) ==
    \E first \in {IF Ch(x, 1) = "-" THEN 2 ELSE 1} :
        /\ Len(x) - d - 1 >= first
        /\ Ch(x, Len(x) - d) = "."
        /\ \A i \in first..Len(x) : i # Len(x) - d => Ch(x, i) \in Digits

\* x shows the amount v with exactly d decimal places: x has that shape and
\* is within half a unit of the last place of v
ShowsAmount(x, v, d) ==
    /\ IsFixed(x, d)
    /\ Finite(v)
    /\ \E m \in {IF v.t = "int" THEN v.n ELSE v.m}, e \in {IF v.t = "int" THEN 0 ELSE v.e} :
       \E mag \in {DigitsVal(x, Len(x) - d + 1, Len(x) + 1,
                             DigitsVal(x, IF Ch(x, 1) = "-" THEN 2 ELSE 1, Len(x) - d, 0))} :
       \E units \in {IF Ch(x, 1) = "-" THEN -mag ELSE mag} :
           2 * Abs(m * Pow10(d) - units * Pow10(e)) <= Pow10(e)

\* text is '$' and the amount v with exactly 2 decimal places
ShowsCurrency(text, v) ==
    Ch(text, 1) = "$" /\ ShowsAmount(Slice(text, 2, Len(text)), v, 2)

\* the Cost Impact Analysis block of a serialized cost-anomaly card, and the
\* texts of its Expected Spend and Actual Spend columns and overspend line
ImpactBlockOf(body) == BlocksOf(body)[3]
SpendText(body, column) ==
    ImpactBlockOf(body).d["items"].l[2].d["columns"].l[column].d["items"].l[2].d["text"].s
OverspendText(body) ==
    ImpactBlockOf(body).d["items"].l[3].d["items"].l[1].d["text"].s

\* the pairs <<x, y>> with text = '**Overspend: $' x ' (' y '% increase)**'
OverspendParts(text) ==
    { <<Slice(text, 15, k - 1), Slice(text, k + 2, Len(text) - 13)>> :
        k \in { k \in 15..(Len(text) - 14) :
                  /\ Slice(text, 1, 14) = "**Overspend: $"
                  /\ Slice(text, k, k + 1) = " ("
                  /\ Slice(text, Len(text) - 12, Len(text)) = "% increase)**" } }

\* the amounts of a posted cost-anomaly card are shown as the claim says
AmountsShown ==
    \E body \in {posts[1].body} :
        /\ ShowsCurrency(SpendText(body, 1), ImpactAmount(source, "totalExpectedSpend"))
        /\ ShowsCurrency(SpendText(body, 2), ImpactAmount(source, "totalActualSpend"))
        /\ \E parts \in OverspendParts(OverspendText(body)) :
               /\ ShowsAmount(parts[1], ImpactAmount(source, "totalImpact"), 2)
               /\ ShowsAmount(parts[2], ImpactAmount(source, "totalImpactPercentage"), 1)

\* C19: for every cost-anomaly payload whose impact fields are numbers the
\* overspend line shows totalImpact as '$' and the amount with exactly 2
\* decimal places and totalImpactPercentage with exactly 1 decimal place, and
\* the Expected and Actual spend fields each show '$' and the amount with
\* exactly 2 decimal places.
C19_Amounts ==
    (CostCardPosted /\ \A key \in ImpactKeys : Numeric(ImpactAmount(source, key)))
        => AmountsShown

\* the same for the payloads whose impact fields are numbers of finite size
C19_AmountsOfFinite ==
    (CostCardPosted /\ \A key \in ImpactKeys : Finite(ImpactAmount(source, key)))
        => AmountsShown

\* a cost-anomaly card has been posted for a payload whose impact fields are
\* a decimal that is rounded, a negative integer and two ties
C19_Witness ==
    /\ CostCardPosted
    /\ ImpactAmount(source, "totalActualSpend") = FloatV(12345678, 3)
    /\ ImpactAmount(source, "totalExpectedSpend") = IntV(-7)
    /\ SpendText(posts[1].body, 2) = "$12345.68"
    /\ OverspendText(posts[1].body) = "**Overspend: $0.12 (0.2% increase)**"

(***************************************************************************)
(* get_action_color (src lines 30-44) called on its own: one call, its     *)
(* argument and its result in the frame of the call.                       *)
(***************************************************************************)
UpperLetters ==
    {"A", "B", "C", "D", "E", "F", "G", "H", "I", "J", "K", "L", "M", "N", "O",
     "P", "Q", "R", "S", "T", "U", "V", "W", "X", "Y", "Z"}

\* c in upper case
UpperCh(c) ==
    IF \E u \in UpperLetters : u # c /\ LowerCh(u) = c
    THEN CHOOSE u \in UpperLetters : LowerCh(u) = c
    ELSE c

\* the words get_action_color knows
ActionWords ==
    {"deleted", "d", "delete", "removed", "created", "create", "added",
     "updated", "update", "modified", "deployed", "deploy", "restored", "restore"}

\* word with the letters at the positions of ups in upper case
RECURSIVE Recase(_, _, _)
Recase(word, ups, i) ==
    IF i > Len(word) THEN ""
    ELSE (IF i \in ups THEN UpperCh(Ch(word, i)) ELSE Ch(word, i))
             \o Recase(word, ups, i + 1)

\* every casing of word
Casings(word) == { Recase(word, ups, 1) : ups \in SUBSET (1..Len(word)) }

\* the arguments of the call: every casing of every word, texts that are no
\* word, and values that are no str
Actions ==
    { StrV(a) : a \in UNION { Casings(word) : word \in ActionWords } }
    \cup { StrV(a) : a \in {"", "x", "dd", "deletes", " deleted", "deleted ",
                            "remove", "add", "adde", "updating", "deploys",
                            "restor", "unknown", "DELETE D", "good", "attention",
                            "created,added", "Deleted\n"} }
    \cup { NoneV, IntV(5), ListV(<<StrV("deleted")>>) }

ColorInit ==
    /\ \E action \in Actions : mem = Frame(1, [action |-> action, pc |-> "Call"])
    /\ wire = <<>>
    /\ ParkedInit

\* get_action_color(action)
CallActionColor ==
    /\ Load(1, "pc") = "Call"
    /\ Store(1, [result |-> get_action_color(Load(1, "action")), pc |-> "Returned"])
    /\ UNCHANGED wire
    /\ UNCHANGED Parked

ColorNext == CallActionColor

ColorSpec == ColorInit /\ [][ColorNext]_vars

\* a is word in some casing
IsCasingOf(a, word) ==
    /\ Len(a) = Len(word)
    /\ \A i \in 1..Len(word) : Ch(a, i) \in {Ch(word, i), UpperCh(Ch(word, i))}

\* the colors of the words, as the claim lists them
ColorOfWords ==
    { <<{"deleted", "d", "delete", "removed"}, "attention">>,
      <<{"created", "create", "added"}, "good">>,
      <<{"updated", "update", "modified"}, "default">>,
      <<{"deployed", "deploy"}, "good">>,
      <<{"restored", "restore"}, "good">> }

\* the call on a str has returned
ColorReturned ==
    <<1, "result">> \in DOMAIN mem /\ mem[<<1, "action">>].t = "str"

\* C20: get_action_color is total and case-insensitive.  For every string the
\* call returns; any casing of deleted/d/delete/removed gives 'attention', of
\* created/create/added 'good', of updated/update/modified 'default', of
\* deployed/deploy 'good', of restored/restore 'good', every other string
\* 'default'; the result is always one of 'attention', 'good', 'default'.
C20_ActionColor ==
    ColorReturned =>
        \E a \in {mem[<<1, "action">>].s}, r \in {mem[<<1, "result">>]} :
            /\ r.ok
            /\ r.val \in {StrV("attention"), StrV("good"), StrV("default")}
            /\ \A row \in ColorOfWords :
                   (\E word \in row[1] : IsCasingOf(a, word)) => r.val = StrV(row[2])
            /\ (\A row \in ColorOfWords : \A word \in row[1] : ~IsCasingOf(a, word))
                   => r.val = StrV("default")

\* the call on a word in mixed case has returned 'attention'
C20_Witness ==
    /\ ColorReturned
    /\ mem[<<1, "action">>] = StrV("ReMoVeD")
    /\ mem[<<1, "result">>] = Ok(StrV("attention"))

(***************************************************************************)
(* The action of the cost-anomaly card (src lines 493-510, 253-262)        *)
(***************************************************************************)
\* the content of a serialized envelope
ContentOf(body) == body.d["attachments"].l[1].d["content"]

\* anomalyDetailsLink of the payload is a non-empty string
NonEmptyLink(p) ==
    /\ HasKey(p, "anomalyDetailsLink")
    /\ p.d["anomalyDetailsLink"].t = "str"
    /\ p.d["anomalyDetailsLink"].s # ""

\* anomalyDetailsLink of the payload is absent or the empty string
NoLink(p) ==
    ~HasKey(p, "anomalyDetailsLink") \/ p.d["anomalyDetailsLink"] = StrV("")

\* the card the handler holds in teams_message is the cost-anomaly card of
\* the payload
CostCardHeld ==
    /\ kind = "CostAnomaly" /\ teams_message # NoneV
    /\ faultAt \in {"none", "Deliver"}

\* the actions of the content of the card the handler holds
ActionsHeld == teams_message.attachments.l[1].content.actions.l

\* C21: in the cost-anomaly card a non-empty anomalyDetailsLink yields exactly
\* one action, of type Action.OpenUrl and with url equal to the link, in the
\* document and in its serialized content; when the link is absent or empty
\* the document has no actions and the serialized content has no 'actions'
\* key.  The card of every other renderer, the error card included, has no
\* actions and no 'actions' key.
C21_DetailsLinkAction ==
    /\ teams_message # NoneV =>
          IF CostCardHeld
          THEN /\ NonEmptyLink(message_json) =>
                    /\ Len(ActionsHeld) = 1
                    /\ ActionsHeld[1].type = StrV("Action.OpenUrl")
                    /\ ActionsHeld[1].url = message_json.d["anomalyDetailsLink"]
               /\ NoLink(message_json) => ActionsHeld = <<>>
          ELSE ActionsHeld = <<>>
    /\ error_message # Unset =>
          error_message.attachments.l[1].content.actions.l = <<>>
    /\ \A i \in 1..Len(posts) :
          \E c \in {ContentOf(posts[i].body)} :
              IF CostCardPosted /\ i = 1
              THEN /\ NonEmptyLink(message_json) =>
                        /\ "actions" \in DOMAIN c.d
                        /\ Len(c.d["actions"].l) = 1
                        /\ c.d["actions"].l[1].d["type"] = StrV("Action.OpenUrl")
                        /\ c.d["actions"].l[1].d["url"]
                               = message_json.d["anomalyDetailsLink"]
                   /\ NoLink(message_json) => "actions" \notin DOMAIN c.d
              ELSE "actions" \notin DOMAIN c.d

\* a cost-anomaly card with its one link action has been posted
C21_Witness ==
    /\ CostCardPosted /\ pc = "Done" /\ faultAt = "none"
    /\ NonEmptyLink(message_json)
    /\ Len(ContentOf(posts[1].body).d["actions"].l) = 1
    /\ ContentOf(posts[1].body).d["actions"].l[1].d["url"]
           = StrV("https://console.aws/a-1")

\* a cost-anomaly card whose payload has an empty link has been posted
\* without the actions key
C21_NoLinkPosted ==
    /\ CostCardPosted /\ pc = "Done"
    /\ HasKey(message_json, "anomalyDetailsLink") /\ NoLink(message_json)
    /\ "actions" \notin DOMAIN ContentOf(posts[1].body).d

(***************************************************************************)
(* The root-cause table of the cost-anomaly card (src lines 432-491,       *)
(* 141-160)                                                                *)
(***************************************************************************)
\* rootCauses of the payload is present and not empty
NonEmptyCauses(p) == HasKey(p, "rootCauses") /\ Truthy(p.d["rootCauses"])

\* the title block above the serialized root-cause table
TableTitleOf(body) == BlocksOf(body)[Len(BlocksOf(body))].d["items"].l[1].d["text"]

\* the Account fact of a serialized cost-anomaly card
AccountFactOf(body) == BlocksOf(body)[2].d["facts"].l[1]

\* the text of the three cells of the table row of a root cause
ShownCause(cause) ==
    << StrV(ShownService(cause)),
       IF HasKey(cause, "linkedAccountName") THEN cause.d["linkedAccountName"]
       ELSE StrV("Unknown"),
       StrV(FormatFixed(IF HasKey(cause, "impactContribution")
                        THEN cause.d["impactContribution"] ELSE IntV(0), 1).val
            \o "%") >>

\* C22: in a cost-anomaly card the root-cause table is present if and only if
\* rootCauses is non-empty.  When present, firstRowAsHeader is true, the first
\* serialized row is the Service / Account / Impact % header row, the rows
\* after it are the first min(5, len(rootCauses)) root causes in input order,
\* and the N of the title 'Top N Contributing Services' is the number of those
\* rows.  With or without the table the Account fact shows the top-level
\* accountName, never a root cause's linkedAccountName.
C22_RootCauseTable ==
    CostCardPosted =>
        \E body \in {posts[1].body} :
            /\ AccountFactOf(body).d["title"] = StrV("[chart] Account")
            /\ AccountFactOf(body).d["value"]
                  = (IF HasKey(message_json, "accountName")
                     THEN message_json.d["accountName"] ELSE StrV("Unknown Account"))
            /\ IF ~NonEmptyCauses(message_json)
               THEN /\ Len(BlocksOf(body)) = 3
                    /\ ~HasTable(body)
               ELSE /\ Len(BlocksOf(body)) = 4
                    /\ HasTable(body)
                    /\ TableOf(body).d["firstRowAsHeader"] = True
                    /\ \E header \in {TableOf(body).d["rows"].l[1]} :
                          /\ Len(header.d["cells"].l) = 3
                          /\ CellText(header, 1) = StrV("**Service**")
                          /\ CellText(header, 2) = StrV("**Account**")
                          /\ CellText(header, 3) = StrV("**Impact %**")
                    /\ Len(DataRows(body)) = Min(5, Len(RootCausesOf(message_json)))
                    /\ \A i \in 1..Len(DataRows(body)) :
                          \A j \in 1..3 :
                              CellText(DataRows(body)[i], j)
                                 = ShownCause(RootCausesOf(message_json)[i])[j]
                    /\ TableTitleOf(body)
                          = StrV("[search] **Top " \o ToString(Len(DataRows(body)))
                                 \o " Contributing Services**")

\* a payload of seven root causes and accountName 'prod' has been posted with
\* the header row and five rows in input order, the first two of accounts a1
\* and a2, under the title 'Top 5', the Account fact showing 'prod'
C22_Witness ==
    /\ CostCardPosted /\ pc = "Done" /\ faultAt = "none"
    /\ HasTable(posts[1].body)
    /\ Len(RootCausesOf(message_json)) = 7
    /\ Len(TableOf(posts[1].body).d["rows"].l) = 6
    /\ CellText(DataRows(posts[1].body)[1], 2) = StrV("a1")
    /\ CellText(DataRows(posts[1].body)[2], 2) = StrV("a2")
    /\ CellText(DataRows(posts[1].body)[5], 1) = StrV("fifth")
    /\ TableTitleOf(posts[1].body) = StrV("[search] **Top 5 Contributing Services**")
    /\ AccountFactOf(posts[1].body).d["value"] = StrV("prod")

\* a cost-anomaly card of a payload without root causes has been posted
\* without the table
C22_NoTablePosted ==
    /\ CostCardPosted /\ pc = "Done"
    /\ HasKey(message_json, "rootCauses") /\ ~NonEmptyCauses(message_json)
    /\ ~HasTable(posts[1].body)

====
